---- MODULE Spec2Model ----
(***************************************************************************)
(* Fund manager of blockhost-engine: the single-flight scheduler           *)
(* (src/src/fund-manager/index.ts), the withdrawal step                    *)
(* (src/src/fund-manager/withdrawal.ts), the distribution steps            *)
(* (src/unnamed/part_009), the gas monitor                                 *)
(* (src/src/fund-manager/gas-manager.ts), the bw and ab commands           *)
(* (src/src/bw/commands, src/src/ab/commands) and the knock handler        *)
(* (src/unnamed/part_012).                                                 *)
(*                                                                         *)
(* Amounts are integers in the asset's smallest unit (decimals = 0 in the  *)
(* model); native balances are in units of 10^14 wei.  IEEE doubles are    *)
(* modelled as exact rationals, compared by cross-multiplication.          *)
(***************************************************************************)
EXTENDS Integers, Sequences, FiniteSets, TLC

---------------------------------------------------------------------------
(* Bounds of the model *)
MaxTime == 3
MaxCalls == 2
MaxFaults == 1

(* Configuration values (blockhost.yaml, fund_manager section) *)
FundCycleIntervalMs == 2
GasCheckIntervalMs == 1
MinWithdrawalUsd == 50
ServerStablecoinBufferUsd == 50

(* Program constants of topUpHotWalletGas, in units of 10^14 wei *)
HotGasThreshold == 5
TopUpAmount == 10

---------------------------------------------------------------------------
(* Addressbook *)
Roles == {"server", "hot", "admin", "dev", "broker"}

NoEntry == [address |-> "none", keyfile |-> "none"]

AddressOf(role) == "0x" \o role

\* keyfile: "none" (no keyfile field), "missing" (path set, file absent),
\* "ok" (readable key), "bad" (file present, unreadable or not a key)
Entry(role, keyfile) == [address |-> AddressOf(role), keyfile |-> keyfile]

FullEntries ==
  [r \in Roles |-> IF r \in {"server", "hot"} THEN Entry(r, "ok") ELSE Entry(r, "none")]

EmptyEntries == [r \in Roles |-> NoEntry]

Without(e, role) == [e EXCEPT ![role] = NoEntry]

WithKey(e, role, keyfile) == [e EXCEPT ![role] = Entry(role, keyfile)]

\* A value held by a `book` variable: an Addressbook object, or the Promise
\* an un-awaited async call returns (a Promise has no role properties).
Book(e) == [isPromise |-> FALSE, e |-> e]

PromiseOf(b) == [isPromise |-> TRUE, e |-> b.e]

BookGet(b, role) == IF b.isPromise THEN NoEntry ELSE b.e[role]

BookIsEmpty(b) == \A r \in Roles : BookGet(b, r) = NoEntry

resolveAddress(role, b) ==
  IF BookGet(b, role) = NoEntry THEN "null" ELSE BookGet(b, role).address

\* "null", "throw" (walletFromKeyfile fails) or the signer's address
resolveWallet(role, b) ==
  LET entry == BookGet(b, role) IN
  IF entry = NoEntry THEN "null"
  ELSE IF entry.keyfile = "none" THEN "null"
  ELSE IF entry.keyfile = "missing" THEN "null"
  ELSE IF entry.keyfile = "bad" THEN "throw"
  ELSE entry.address

---------------------------------------------------------------------------
(* Chain: tokens, payment methods, accounts *)
Tokens == {"usdc", "tkn"}

toLowerCase(addr) ==
  CASE addr = "USDC" -> "usdc"
    [] addr = "TKN" -> "tkn"
    [] OTHER -> addr

Escrow == "escrow"

Accounts == {Escrow} \cup {AddressOf(r) : r \in Roles}

\* A payment method of the subscription contract: token address as
\* registered, active flag, recorded price in USD cents per token
PM(addr, active, cents) == [tokenAddress |-> addr, active |-> active, price |-> cents]

PaymentMethodConfigs ==
  { << PM("USDC", TRUE, 100), PM("usdc", TRUE, 100), PM("TKN", TRUE, 200) >>,
    << PM("TKN", FALSE, 200), PM("USDC", TRUE, 100) >>,
    << >> }

---------------------------------------------------------------------------
(* State *)
VARIABLES
  now,                  \* Date.now(), in ticks
  last_fund_cycle,      \* persisted FundManagerState.last_fund_cycle
  last_gas_check,       \* persisted FundManagerState.last_gas_check
  fundCycleInProgress,  \* module-level guard of runFundCycle
  gasCheckInProgress,   \* module-level guard of runGasCheck
  fcStat,               \* history: runFundCycle calls, skips, runs, ends, settlement
  gcStat,               \* history: runGasCheck calls, skips, runs, ends, settlement
  contractEnv,          \* process.env.BLOCKHOST_CONTRACT is set
  diskBook,             \* entries of /etc/blockhost/addressbook.json
  hotGen,               \* un-awaited ensureHotWallet calls: pending, generated keys, rejections
  fcPc,                 \* position of the running fund cycle
  book,                 \* runFundCycle's local `book`
  fcErr,                \* an exception is propagating out of the try block
  fcLoc,                \* locals of the running step (token list, indexes, sums)
  stepsRun,             \* history: the step functions the running cycle has called
  gcPc,                 \* position of the running gas check
  gcLoc,                \* locals of the running gas check
  tokenBal,             \* ERC20 balances: account -> token -> amount
  ethBal,               \* native balances of the server and hot wallets
  allowance,            \* the router's USDC allowance from the server wallet
  poolQuote,            \* router.getAmountsOut for a swap to the native token
  txLog,                \* history: every transaction attempt, in submission order
  facts,                \* history: what each read of the running step returned
  faults,               \* remaining injected failures (RPC errors, reverts)
  paymentMethods,       \* the contract's payment method registry
  primaryStablecoin,    \* the contract's getPrimaryStablecoin()
  revenueConfig,        \* revenue-share.json as loaded
  chainConfig,          \* getChainConfig(chainId) of the connected network
  knock,                \* the knock handler: activeKnocks, timers, tails, iptables rules
  cli                   \* the bw withdraw process: position, arguments, result

schedVars == << now, last_fund_cycle, last_gas_check, fundCycleInProgress,
                gasCheckInProgress, fcStat, gcStat, contractEnv, diskBook, hotGen >>
fcVars == << fcPc, book, fcErr, fcLoc, stepsRun >>
gcVars == << gcPc, gcLoc >>
chainVars == << tokenBal, ethBal, allowance, txLog, poolQuote >>
envVars == << paymentMethods, primaryStablecoin, revenueConfig, chainConfig, knock >>
vars == << schedVars, fcVars, gcVars, chainVars, envVars, facts, faults, cli >>

---------------------------------------------------------------------------
(* Injected failures: an awaited call either returns or throws *)
MayFail(none, kinds) == {none} \cup (IF faults > 0 THEN kinds ELSE {})

Spend(f, none) == IF f = none THEN faults ELSE faults - 1

\* IEEE double value of (balance tokens * cents / 100) against a USD amount,
\* both scaled to cents
UsdCents(balance, cents) == balance * cents

StablecoinOneToOneCents == 100

---------------------------------------------------------------------------
(* Transactions *)
Tx(step, kind, signer, token, to, amount) ==
  [step |-> step, kind |-> kind, signer |-> signer, token |-> token,
   to |-> to, amount |-> amount, status |-> "pending"]

Submit(tx) == Append(txLog, tx)

Rejected(tx) == Append(txLog, [tx EXCEPT !.status = "rejected"])

Settle(log, id, status) == [log EXCEPT ![id].status = status]

\* a transfer that credits the recipient without debiting the sender
Move_creditOnly(bal, token, from, to, amount) ==
  [bal EXCEPT ![to][token] = @ + amount]

Move(bal, token, from, to, amount) ==
  [bal EXCEPT ![from][token] = @ - amount, ![to][token] = @ + amount]

\* BlockhostSubscriptions.withdrawFunds(token, to): the contract sends its
\* whole balance of the token
WithdrawFundsEffect(bal, token, to) == Move(bal, token, Escrow, to, bal[Escrow][token])

\* ERC20 transfer(to, amount): reverts when the sender holds less
TransferAllowed(bal, token, from, amount) == bal[from][token] >= amount

---------------------------------------------------------------------------
(* Fund cycle: the steps of runFundCycle's try block *)
FcLoc0 == [tokens |-> << >>, idx |-> 0, rec |-> 0, distributed |-> 0, txId |-> 0]

\* the buffer top-up called before the gas top-up
FundCycleNextStep_swapped(step) ==
  CASE step = "withdraw" -> "buffer"
    [] step = "buffer" -> "gasTopUp"
    [] step = "gasTopUp" -> "revenue"
    [] step = "revenue" -> "remainder"
    [] step = "remainder" -> "finally"

FundCycleNextStep(step) ==
  CASE step = "withdraw" -> "gasTopUp"
    [] step = "gasTopUp" -> "buffer"
    [] step = "buffer" -> "revenue"
    [] step = "revenue" -> "remainder"
    [] step = "remainder" -> "finally"

StepNumber(step) ==
  CASE step = "withdraw" -> 1
    [] step = "gasTopUp" -> 2
    [] step = "buffer" -> 3
    [] step = "revenue" -> 4
    [] step = "remainder" -> 5

\* The part of the state a fund cycle step may change
Cur == [pc |-> fcPc, loc |-> fcLoc, err |-> fcErr, log |-> txLog, bal |-> tokenBal,
        eth |-> ethBal, facts |-> facts, faults |-> faults]

StepFunctions == {"withdraw", "gasTopUp", "buffer", "revenue", "remainder"}

FcApply(r) ==
  /\ fcPc' = r.pc
  /\ stepsRun' = IF fcPc \in StepFunctions THEN stepsRun \cup {fcPc} ELSE stepsRun
  /\ fcLoc' = r.loc
  /\ fcErr' = r.err
  /\ txLog' = r.log
  /\ tokenBal' = r.bal
  /\ ethBal' = r.eth
  /\ facts' = r.facts
  /\ faults' = r.faults
  /\ UNCHANGED << book, schedVars, gcVars, allowance, poolQuote, envVars, cli >>

\* the step function returns: runFundCycle goes on with the next step
Return(step) == [Cur EXCEPT !.pc = FundCycleNextStep(step), !.loc = FcLoc0]

\* the step function throws: control passes to runFundCycle's catch
Throw == [Cur EXCEPT !.pc = "finally", !.err = TRUE, !.loc = FcLoc0]

Spent(r) == [r EXCEPT !.faults = faults - 1]

Fact(step, token, balance, priceFailed) ==
  [step |-> step, token |-> token, balance |-> balance, priceFailed |-> priceFailed]

---------------------------------------------------------------------------
(* Step 1: withdrawFromContract *)
\* a Map keyed by the address as registered
AlreadyCollected_caseSensitive(acc, tokenAddress) ==
  tokenAddress \in {acc[k].address : k \in 1..Len(acc)}

\* lines 62-63: `tokens.has(tokenAddress.toLowerCase())`
AlreadyCollected(acc, tokenAddress) ==
  toLowerCase(tokenAddress) \in {toLowerCase(acc[k].address) : k \in 1..Len(acc)}

RECURSIVE Collect(_, _, _, _)
Collect(pms, i, failed, acc) ==
  IF i > Len(pms) THEN acc
  ELSE LET pm == pms[i]
       IN IF i = failed \/ ~pm.active \/ AlreadyCollected(acc, pm.tokenAddress)
          THEN Collect(pms, i + 1, failed, acc)
          ELSE Collect(pms, i + 1, failed,
                       Append(acc, [address |-> pm.tokenAddress, pmId |-> i]))

\* the Map of unique active tokens, in insertion order; `failed` is the
\* payment method whose getPaymentMethod call threw (0: none)
CollectTokens(pms, failed) == Collect(pms, 1, failed, << >>)

\* a threshold that also skips the value equal to it
BelowThreshold_inclusive(usdCents) == usdCents <= MinWithdrawalUsd * 100

\* line 93: `if (usdValue < config.min_withdrawal_usd)`
BelowThreshold(usdCents) == usdCents < MinWithdrawalUsd * 100

\* a withdrawal to the signer itself
WithdrawDestination_server(b) == BookGet(b, "server").address

\* line 34: `const hotAddress = book.hot?.address`
WithdrawDestination(b) == BookGet(b, "hot").address

\* after the loop body for token idx: the next token, or the step returns
NextToken(r, step) ==
  IF fcLoc.idx >= Len(fcLoc.tokens)
  THEN [r EXCEPT !.pc = FundCycleNextStep(step), !.loc = FcLoc0]
  ELSE [r EXCEPT !.pc = step \o "Loop", !.loc = [fcLoc EXCEPT !.idx = @ + 1]]

\* lines 28-69: signer, destination, payment method ids, unique tokens
WithdrawCollect ==
  /\ fcPc = "withdraw"
  /\ \E f \in MayFail(0, {-1} \cup (1..Len(paymentMethods))) :
       LET server == resolveWallet("server", book)
           tokens == CollectTokens(paymentMethods, f)
           met == [Cur EXCEPT
                     !.faults = Spend(f, 0),
                     !.facts = IF f = 0 THEN facts
                               ELSE IF f = -1
                                 THEN Append(facts, Fact("withdrawIds", "none", -1, FALSE))
                               ELSE Append(facts, Fact("withdrawPm",
                                      toLowerCase(paymentMethods[f].tokenAddress), -1, FALSE))]
       IN /\ f # 0 => server \notin {"throw", "null"} /\ BookGet(book, "hot") # NoEntry
          /\ FcApply(
               IF server = "throw" THEN Throw
               ELSE IF server = "null" \/ BookGet(book, "hot") = NoEntry
                 THEN Return("withdraw")
               ELSE IF f = -1 \/ Len(paymentMethods) = 0 \/ Len(tokens) = 0
                 THEN [met EXCEPT !.pc = FundCycleNextStep("withdraw"), !.loc = FcLoc0]
               ELSE [met EXCEPT !.pc = "withdrawLoop",
                                !.loc = [FcLoc0 EXCEPT !.tokens = tokens, !.idx = 1]])

\* a loop without the per-token try/catch: the error leaves the step
CatchTokenError_uncaught(r) == [r EXCEPT !.pc = "finally", !.err = TRUE, !.loc = FcLoc0]

\* lines 106-108: the per-token catch logs the error; the loop goes on
CatchTokenError(r) == NextToken(r, "withdraw")

\* lines 72-104: one iteration up to the submission of withdrawFunds
WithdrawToken ==
  /\ fcPc = "withdrawLoop"
  /\ \E f \in MayFail("none", {"balance", "price", "submit"}) :
       LET t == fcLoc.tokens[fcLoc.idx]
           token == toLowerCase(t.address)
           balance == tokenBal[Escrow][token]
           cents == IF f = "price" THEN StablecoinOneToOneCents
                    ELSE paymentMethods[t.pmId].price
           usdCents == UsdCents(balance, cents)
           tx == Tx("withdraw", "withdrawFunds", resolveWallet("server", book),
                    token, WithdrawDestination(book), balance)
           read == [Cur EXCEPT !.facts = Append(facts, Fact("withdraw", token, balance,
                                                         f = "price"))]
       IN /\ f = "price" => balance # 0
          /\ f = "submit" => balance # 0 /\ ~BelowThreshold(usdCents)
          /\ FcApply(
               IF f = "balance"
                 THEN CatchTokenError(Spent([Cur EXCEPT !.facts =
                        Append(facts, Fact("withdraw", token, -1, FALSE))]))
               ELSE IF balance = 0 THEN NextToken(read, "withdraw")
               ELSE IF BelowThreshold(usdCents)
                 THEN NextToken([read EXCEPT !.faults = Spend(f, "none")], "withdraw")
               ELSE IF f = "submit"
                 THEN CatchTokenError(Spent([read EXCEPT !.log = Rejected(tx)]))
               ELSE [read EXCEPT !.pc = "withdrawWait", !.log = Submit(tx),
                                 !.faults = Spend(f, "none"),
                                 !.loc = [fcLoc EXCEPT !.txId = Len(txLog) + 1]])

\* lines 105-109: tx.wait() returns the receipt or throws (caught per token)
WithdrawWait ==
  /\ fcPc = "withdrawWait"
  /\ \E f \in MayFail("none", {"revert"}) :
       LET tx == txLog[fcLoc.txId] IN
       FcApply(
         IF f = "revert"
         THEN CatchTokenError(Spent([Cur EXCEPT !.log = Settle(txLog, fcLoc.txId, "failed")]))
         ELSE NextToken([Cur EXCEPT !.log = Settle(txLog, fcLoc.txId, "confirmed"),
                                    !.bal = WithdrawFundsEffect(tokenBal, tx.token, tx.to)],
                        "withdraw"))

---------------------------------------------------------------------------
(* getAllTokenBalances (token-utils): balances of the unique active tokens *)
\* f: 0 no failure, -1 getPaymentMethodIds threw, 1..n getPaymentMethod(n)
\* threw, 100+k the balance read of the k-th unique token threw; -2 (step 4
\* only) loadRevenueShareConfig threw
BalanceFaults == {-1} \cup (1..Len(paymentMethods)) \cup {100 + k : k \in 1..Cardinality(Tokens)}

RECURSIVE ReadBalances(_, _, _, _, _)
ReadBalances(toks, k, wallet, f, acc) ==
  IF k > Len(toks) THEN acc
  ELSE IF f = 100 + k THEN ReadBalances(toks, k + 1, wallet, f, acc)
  ELSE ReadBalances(toks, k + 1, wallet, f,
         Append(acc, [address |-> toks[k].address,
                      balance |-> tokenBal[wallet][toLowerCase(toks[k].address)]]))

getAllTokenBalances(wallet, f) ==
  IF f = -1 THEN << >>
  ELSE ReadBalances(CollectTokens(paymentMethods, IF f \in 1..Len(paymentMethods) THEN f ELSE 0),
                    1, wallet, f, << >>)

\* what a step has read: one record per TokenBalance returned
BalanceFacts(step, balances) ==
  [k \in 1..Len(balances) |->
     Fact(step, toLowerCase(balances[k].address), balances[k].balance, FALSE)]

\* a failure that no call of this run met is no failure
BalanceFaultMet(f) ==
  \/ f = -1
  \/ f \in 1..Len(paymentMethods)
  \/ f - 100 \in 1..Len(CollectTokens(paymentMethods, 0))

---------------------------------------------------------------------------
(* Step 2: topUpHotWalletGas *)
\* a top-up sent whenever the server can pay it
ReserveTooLow_single(serverBalance) == serverBalance < TopUpAmount

\* line 131: `if (serverBalance < topUpAmount * 2n)` skip the top-up
ReserveTooLow(serverBalance) == serverBalance < TopUpAmount * 2

\* line 121: `if (hotBalance >= threshold) return`
HotGasSufficient(hotBalance) == hotBalance >= HotGasThreshold

TopUpHotWalletGas ==
  /\ fcPc = "gasTopUp"
  /\ \E f \in MayFail("none", {"hotBalance", "serverBalance", "submit"}) :
       LET hot == BookGet(book, "hot")
           server == resolveWallet("server", book)
           tx == Tx("gasTopUp", "sendEth", server, "eth", hot.address, TopUpAmount)
       IN FcApply(
            IF hot = NoEntry THEN Return("gasTopUp")
            ELSE IF f = "hotBalance" THEN Spent(Throw)
            ELSE IF HotGasSufficient(ethBal[hot.address]) THEN Return("gasTopUp")
            ELSE IF server = "null" THEN Return("gasTopUp")
            ELSE IF server = "throw" THEN Throw
            ELSE IF f = "serverBalance" THEN Spent(Throw)
            ELSE IF ReserveTooLow(ethBal[server]) THEN Return("gasTopUp")
            ELSE IF f = "submit" THEN Spent([Throw EXCEPT !.log = Rejected(tx)])
            ELSE [Cur EXCEPT !.pc = "gasTopUpWait", !.log = Submit(tx),
                             !.loc = [FcLoc0 EXCEPT !.txId = Len(txLog) + 1]])

GasTopUpWait ==
  /\ fcPc = "gasTopUpWait"
  /\ \E f \in MayFail("none", {"revert"}) :
       LET tx == txLog[fcLoc.txId] IN
       FcApply(
         IF f = "revert" \/ ethBal[tx.signer] < tx.amount
         THEN [Throw EXCEPT !.log = Settle(txLog, fcLoc.txId, "failed"),
                            !.faults = Spend(f, "none")]
         ELSE [Return("gasTopUp") EXCEPT
                 !.log = Settle(txLog, fcLoc.txId, "confirmed"),
                 !.eth = [ethBal EXCEPT ![tx.signer] = @ - tx.amount,
                                        ![tx.to] = @ + tx.amount]])

---------------------------------------------------------------------------
(* Step 3: topUpServerStablecoinBuffer *)
ZeroAddress == "0x0"

BufferTarget == ServerStablecoinBufferUsd

\* line 178: `if (serverStableBalance >= bufferTarget) return`
BufferReached(serverStableBalance) == serverStableBalance >= BufferTarget

\* line 187: `const needed = bufferTarget - serverStableBalance`
Needed(serverStableBalance) == BufferTarget - serverStableBalance

\* a top-up that does not look at what the hot wallet holds
HotStableInsufficient_unchecked(hotStableBalance, needed) == FALSE

\* line 194: `if (hotStableBalance < needed)` skip the top-up
HotStableInsufficient(hotStableBalance, needed) == hotStableBalance < needed

TopUpServerStablecoinBuffer ==
  /\ fcPc = "buffer"
  /\ \E f \in MayFail("none", {"stablecoin", "serverBalance", "hotBalance", "submit"}) :
       LET server == BookGet(book, "server")
           stable == toLowerCase(primaryStablecoin)
           serverBal == tokenBal[server.address][stable]
           hotWallet == resolveWallet("hot", book)
           needed == Needed(serverBal)
           hotBal == tokenBal[BookGet(book, "hot").address][stable]
           tx == Tx("buffer", "transfer", hotWallet, stable, server.address, needed)
       IN FcApply(
            IF server = NoEntry THEN Return("buffer")
            ELSE IF f = "stablecoin" THEN Spent(Return("buffer"))
            ELSE IF primaryStablecoin = ZeroAddress THEN Return("buffer")
            ELSE IF f = "serverBalance" THEN Spent(Throw)
            ELSE IF BufferReached(serverBal) THEN Return("buffer")
            ELSE IF hotWallet = "null" THEN Return("buffer")
            ELSE IF hotWallet = "throw" THEN Throw
            ELSE IF f = "hotBalance" THEN Spent(Throw)
            ELSE IF HotStableInsufficient(hotBal, needed) THEN Return("buffer")
            ELSE IF f = "submit" THEN Spent([Throw EXCEPT !.log = Rejected(tx)])
            ELSE [Cur EXCEPT !.pc = "bufferWait", !.log = Submit(tx),
                             !.loc = [FcLoc0 EXCEPT !.txId = Len(txLog) + 1]])

BufferWait ==
  /\ fcPc = "bufferWait"
  /\ \E f \in MayFail("none", {"revert"}) :
       LET tx == txLog[fcLoc.txId] IN
       FcApply(
         IF f = "revert" \/ ~TransferAllowed(tokenBal, tx.token, tx.signer, tx.amount)
         THEN [Throw EXCEPT !.log = Settle(txLog, fcLoc.txId, "failed"),
                            !.faults = Spend(f, "none")]
         ELSE [Return("buffer") EXCEPT
                 !.log = Settle(txLog, fcLoc.txId, "confirmed"),
                 !.bal = Move(tokenBal, tx.token, tx.signer, tx.to, tx.amount)])

---------------------------------------------------------------------------
(* Step 4: distributeRevenueShares *)
\* percents are carried in thousandths of a percent
Recipient(role, percent) == [role |-> role, percent |-> percent]

RevenueConfigs ==
  { [enabled |-> FALSE, total_percent |-> 10000,
     recipients |-> << Recipient("dev", 5000), Recipient("broker", 5000) >>],
    [enabled |-> TRUE, total_percent |-> 10000,
     recipients |-> << Recipient("dev", 5000), Recipient("broker", 5000) >>] }

\* Math.round(percent * 100)
RoundX100(percent) == (percent + 5) \div 10

TotalShareAmount(balance, cfg) == (balance * RoundX100(cfg.total_percent)) \div 10000

\* a last recipient paid by its percent like the others
ShareOf_lastByPercent(totalShare, distributed, cfg, i) ==
  (totalShare * RoundX100(cfg.recipients[i].percent)) \div RoundX100(cfg.total_percent)

\* lines 247-251: the last listed recipient takes what is left
ShareOf(totalShare, distributed, cfg, i) ==
  IF i = Len(cfg.recipients)
  THEN totalShare - distributed
  ELSE (totalShare * RoundX100(cfg.recipients[i].percent)) \div RoundX100(cfg.total_percent)

\* after recipient rec of token idx: the next recipient, the next token, or return
NextRecipient(r, distributed) ==
  IF fcLoc.rec < Len(revenueConfig.recipients)
  THEN [r EXCEPT !.pc = "revenueLoop",
                 !.loc = [fcLoc EXCEPT !.rec = @ + 1, !.distributed = distributed]]
  ELSE IF fcLoc.idx < Len(fcLoc.tokens)
  THEN [r EXCEPT !.pc = "revenueLoop",
                 !.loc = [fcLoc EXCEPT !.idx = @ + 1, !.rec = 1, !.distributed = 0]]
  ELSE [r EXCEPT !.pc = FundCycleNextStep("revenue"), !.loc = FcLoc0]

SkipToken(r) ==
  IF fcLoc.idx < Len(fcLoc.tokens)
  THEN [r EXCEPT !.pc = "revenueLoop",
                 !.loc = [fcLoc EXCEPT !.idx = @ + 1, !.rec = 1, !.distributed = 0]]
  ELSE [r EXCEPT !.pc = FundCycleNextStep("revenue"), !.loc = FcLoc0]

\* a missing recipient that ends the distribution
SkipRecipient_abort(r, distributed) ==
  [r EXCEPT !.pc = FundCycleNextStep("revenue"), !.loc = FcLoc0]

\* lines 242-245: a role missing from the addressbook is logged, `continue`
SkipRecipient(r, distributed) == NextRecipient(r, distributed)

\* index.ts line 103: loadRevenueShareConfig() raises on a configuration it
\* rejects; lines 215-226: configuration, signer, balances of the hot wallet
DistributeRevenueShares ==
  /\ fcPc = "revenue"
  /\ \E f \in MayFail(0, {-2} \cup {g \in BalanceFaults : BalanceFaultMet(g)}) :
       LET hotWallet == resolveWallet("hot", book)
           balances == getAllTokenBalances(BookGet(book, "hot").address, f)
       IN FcApply(
            IF f = -2 THEN Spent(Throw)
            ELSE IF ~revenueConfig.enabled \/ Len(revenueConfig.recipients) = 0
              THEN Return("revenue")
            ELSE IF hotWallet = "null" THEN Return("revenue")
            ELSE IF hotWallet = "throw" THEN Throw
            ELSE IF Len(balances) = 0
              THEN [Return("revenue") EXCEPT !.faults = Spend(f, 0)]
            ELSE [Cur EXCEPT !.pc = "revenueLoop", !.faults = Spend(f, 0),
                             !.facts = facts \o BalanceFacts("revenue", balances),
                             !.loc = [FcLoc0 EXCEPT !.tokens = balances, !.idx = 1,
                                                    !.rec = 1]])

\* lines 228-257: one recipient of one token, up to the submission
RevenueShareTransfer ==
  /\ fcPc = "revenueLoop"
  /\ \E f \in MayFail("none", {"submit"}) :
       LET tb == fcLoc.tokens[fcLoc.idx]
           token == toLowerCase(tb.address)
           totalShare == TotalShareAmount(tb.balance, revenueConfig)
           recipient == revenueConfig.recipients[fcLoc.rec]
           recipientAddress == resolveAddress(recipient.role, book)
           share == ShareOf(totalShare, fcLoc.distributed, revenueConfig, fcLoc.rec)
           distributed == fcLoc.distributed + share
           tx == Tx("revenue", "transfer", resolveWallet("hot", book), token,
                    recipientAddress, share)
       IN FcApply(
            IF tb.balance = 0 \/ totalShare = 0 THEN SkipToken(Cur)
            ELSE IF recipientAddress = "null" THEN SkipRecipient(Cur, fcLoc.distributed)
            ELSE IF share = 0 THEN NextRecipient(Cur, distributed)
            ELSE IF share < 0
              THEN NextRecipient([Cur EXCEPT !.log = Rejected(tx)], distributed)
            ELSE IF f = "submit"
              THEN NextRecipient(Spent([Cur EXCEPT !.log = Rejected(tx)]), distributed)
            ELSE [Cur EXCEPT !.pc = "revenueWait", !.log = Submit(tx),
                             !.loc = [fcLoc EXCEPT !.txId = Len(txLog) + 1,
                                                   !.distributed = distributed]])

\* transferToken's tx.wait(), inside the per-recipient try
RevenueShareWait ==
  /\ fcPc = "revenueWait"
  /\ \E f \in MayFail("none", {"revert"}) :
       LET tx == txLog[fcLoc.txId] IN
       FcApply(
         IF f = "revert" \/ ~TransferAllowed(tokenBal, tx.token, tx.signer, tx.amount)
         THEN NextRecipient([Cur EXCEPT !.log = Settle(txLog, fcLoc.txId, "failed"),
                                        !.faults = Spend(f, "none")],
                            fcLoc.distributed)
         ELSE NextRecipient([Cur EXCEPT
                               !.log = Settle(txLog, fcLoc.txId, "confirmed"),
                               !.bal = Move(tokenBal, tx.token, tx.signer, tx.to, tx.amount)],
                            fcLoc.distributed))

---------------------------------------------------------------------------
(* Step 5: sendRemainderToAdmin *)
\* a remainder swept to the server
RemainderDestination_server(b) == resolveAddress("server", b)

\* line 278: `const adminAddress = resolveAddress("admin", book)`
RemainderDestination(b) == resolveAddress("admin", b)

SendRemainderToAdmin ==
  /\ fcPc = "remainder"
  /\ \E f \in MayFail(0, {g \in BalanceFaults : BalanceFaultMet(g)}) :
       LET adminAddress == RemainderDestination(book)
           hotWallet == resolveWallet("hot", book)
           balances == getAllTokenBalances(BookGet(book, "hot").address, f)
       IN FcApply(
            IF adminAddress = "null" THEN Return("remainder")
            ELSE IF hotWallet = "null" THEN Return("remainder")
            ELSE IF hotWallet = "throw" THEN Throw
            ELSE IF Len(balances) = 0
              THEN [Return("remainder") EXCEPT !.faults = Spend(f, 0)]
            ELSE [Cur EXCEPT !.pc = "remainderLoop", !.faults = Spend(f, 0),
                             !.facts = facts \o BalanceFacts("remainder", balances),
                             !.loc = [FcLoc0 EXCEPT !.tokens = balances, !.idx = 1]])

\* a sweep that keeps one unit back
RemainderAmount_less(tb) == tb.balance - 1

\* line 297: transferToken(tb.tokenAddress, adminAddress, tb.balance, hotWallet)
RemainderAmount(tb) == tb.balance

RemainderTransfer ==
  /\ fcPc = "remainderLoop"
  /\ \E f \in MayFail("none", {"submit"}) :
       LET tb == fcLoc.tokens[fcLoc.idx]
           tx == Tx("remainder", "transfer", resolveWallet("hot", book),
                    toLowerCase(tb.address), RemainderDestination(book),
                    RemainderAmount(tb))
       IN FcApply(
            IF tb.balance = 0 THEN NextToken(Cur, "remainder")
            ELSE IF f = "submit"
              THEN NextToken(Spent([Cur EXCEPT !.log = Rejected(tx)]), "remainder")
            ELSE [Cur EXCEPT !.pc = "remainderWait", !.log = Submit(tx),
                             !.loc = [fcLoc EXCEPT !.txId = Len(txLog) + 1]])

RemainderWait ==
  /\ fcPc = "remainderWait"
  /\ \E f \in MayFail("none", {"revert"}) :
       LET tx == txLog[fcLoc.txId] IN
       FcApply(
         IF f = "revert" \/ ~TransferAllowed(tokenBal, tx.token, tx.signer, tx.amount)
         THEN NextToken([Cur EXCEPT !.log = Settle(txLog, fcLoc.txId, "failed"),
                                    !.faults = Spend(f, "none")], "remainder")
         ELSE NextToken([Cur EXCEPT
                           !.log = Settle(txLog, fcLoc.txId, "confirmed"),
                           !.bal = Move(tokenBal, tx.token, tx.signer, tx.to, tx.amount)],
                        "remainder"))

---------------------------------------------------------------------------
(* Scheduler: persisted state, single-flight guards, runFundCycle *)
\* state.ts: updateState merges the given fields into the persisted state
updateState(state, field, value) == [state EXCEPT ![field] = value]

PersistedState == [last_fund_cycle |-> last_fund_cycle, last_gas_check |-> last_gas_check]

Persist(state) ==
  /\ last_fund_cycle' = state.last_fund_cycle
  /\ last_gas_check' = state.last_gas_check

\* a fund cycle due only once the interval is exceeded
shouldRunFundCycle_strict == now - last_fund_cycle > FundCycleIntervalMs

shouldRunFundCycle == now - last_fund_cycle >= FundCycleIntervalMs

shouldRunGasCheck == now - last_gas_check >= GasCheckIntervalMs

loadAddressbook == Book(diskBook)

\* ensureHotWallet returns a Promise (it is declared async): of the book as
\* it is when hot is present, of the book with the generated hot otherwise
ensureHotWallet(b) == PromiseOf(b)

\* index.ts line 91, `book = ensureHotWallet(book)`: no await
EnsuredBook(b) == ensureHotWallet(b)

NeedsHotWallet(b) == BookGet(b, "hot") = NoEntry

\* a try block without the catch
EscapesCatch_rethrown(err) == err

\* the catch block of runFundCycle / runGasCheck: is the exception still
\* propagating after it?
EscapesCatch(err) == FALSE

\* a finally block that leaves the guard as it is
GuardAfterFinally_kept == TRUE

\* the finally block: the value the guard is left with
GuardAfterFinally == FALSE

\* a guard that is never found held
GuardHeld_ignored(guard) == FALSE

\* `if (fundCycleInProgress) return;` / `if (gasCheckInProgress) return;`
GuardHeld(guard) == guard

\* mark: the length of the transaction log when a second fund cycle began;
\* endedAt: Date.now() when the last run reached its finally block
Stat0 == [calls |-> 0, skips |-> 0, runs |-> 0, ends |-> 0, threw |-> 0,
          rejected |-> 0, lastEnd |-> "none", mark |-> 0, endedAt |-> 0]

Ended(stat, how, err) ==
  [stat EXCEPT !.ends = @ + 1, !.lastEnd = how, !.endedAt = now,
               !.threw = IF err THEN @ + 1 ELSE @,
               !.rejected = IF EscapesCatch(err) THEN @ + 1 ELSE @]

\* lines 72-91 up to the first await; the early returns run the finally
\* block in the same turn
runFundCycle ==
  /\ fcStat.calls < MaxCalls
  /\ IF GuardHeld(fundCycleInProgress)
     THEN /\ fcStat' = [fcStat EXCEPT !.calls = @ + 1, !.skips = @ + 1]
          /\ UNCHANGED << fundCycleInProgress, last_fund_cycle, last_gas_check,
                          fcPc, book, hotGen, stepsRun >>
     ELSE IF ~contractEnv \/ BookIsEmpty(loadAddressbook)
     THEN /\ fcStat' = Ended([fcStat EXCEPT !.calls = @ + 1, !.runs = @ + 1],
                             IF ~contractEnv THEN "nocontract" ELSE "emptybook", FALSE)
          /\ Persist(updateState(PersistedState, "last_fund_cycle", now))
          /\ fundCycleInProgress' = GuardAfterFinally
          /\ stepsRun' = {}
          /\ UNCHANGED << fcPc, book, hotGen >>
     ELSE /\ fcStat' = [fcStat EXCEPT !.calls = @ + 1, !.runs = @ + 1]
          /\ fundCycleInProgress' = TRUE
          /\ book' = EnsuredBook(loadAddressbook)
          /\ hotGen' = IF NeedsHotWallet(loadAddressbook)
                       THEN [hotGen EXCEPT !.pending = @ + 1] ELSE hotGen
          /\ fcPc' = "withdraw"
          /\ stepsRun' = {}
          /\ UNCHANGED << last_fund_cycle, last_gas_check >>
  /\ UNCHANGED << now, gasCheckInProgress, gcStat, contractEnv, diskBook, fcErr, fcLoc,
                  gcVars, chainVars, envVars, facts, faults, cli >>

\* lines 110-115: catch, then finally
FundCycleFinally ==
  /\ fcPc = "finally"
  /\ fcStat' = Ended(fcStat, IF fcErr THEN "threw" ELSE "complete", fcErr)
  /\ Persist(updateState(PersistedState, "last_fund_cycle", now))
  /\ fundCycleInProgress' = GuardAfterFinally
  /\ fcPc' = "idle"
  /\ fcErr' = FALSE
  /\ UNCHANGED << now, gasCheckInProgress, gcStat, contractEnv, diskBook, hotGen, book,
                  fcLoc, stepsRun, gcVars, chainVars, envVars, facts, faults, cli >>

\* the monitor's polling loop calls runFundCycle when the interval has elapsed
PollFundCycle == shouldRunFundCycle /\ runFundCycle

\* the root agent's generate action: a new key under the role name,
\* registered in the addressbook with it
GenerateWallet(entries, role) == WithKey(entries, role, "ok")

\* the body of the un-awaited ensureHotWallet: the root agent generates and
\* registers the key, then the addressbook is saved with the hot entry (a
\* failed save is logged, not thrown)
HotWalletGeneration ==
  /\ hotGen.pending > 0
  /\ \E f \in MayFail("none", {"generate", "save"}) :
       /\ hotGen' = [hotGen EXCEPT !.pending = @ - 1,
                                   !.keys = IF f = "generate" THEN @ ELSE @ + 1,
                                   !.rejected = IF f = "generate" THEN @ + 1 ELSE @]
       /\ diskBook' = IF f = "generate" THEN diskBook ELSE GenerateWallet(diskBook, "hot")
       /\ faults' = Spend(f, "none")
  /\ UNCHANGED << now, last_fund_cycle, last_gas_check, fundCycleInProgress,
                  gasCheckInProgress, fcStat, gcStat, contractEnv, fcVars, gcVars,
                  chainVars, envVars, facts, cli >>

Tick ==
  /\ now < MaxTime
  /\ now' = now + 1
  /\ UNCHANGED << last_fund_cycle, last_gas_check, fundCycleInProgress,
                  gasCheckInProgress, fcStat, gcStat, contractEnv, diskBook, hotGen,
                  fcVars, gcVars, chainVars, envVars, facts, faults, cli >>

---------------------------------------------------------------------------
(* Gas monitor: runGasCheck and checkAndSwapGas *)
GasLowThresholdUsd == 5
GasSwapAmountUsd == 20
MaxUint256 == 2147483647

\* USD cents per 10^14 wei, from the pair's reserves (getEthPriceUsd)
EthPriceCents == 20

\* router.getAmountsOut for the swap amount, in units of 10^14 wei
ExpectedEth == 100

Router == "router"

SwapAmountUsdc == GasSwapAmountUsd

\* a slippage bound of 3%
MinEthOut_97(expectedEth) == (expectedEth * 97) \div 100

\* line 142: `(expectedEth * 98n) / 100n`, on bigints
MinEthOut(expectedEth) == (expectedEth * 98) \div 100

\* swapExactTokensForETH(amountIn, minOut, path, to, deadline), with the
\* quote its bound was computed from
SwapTx(step, signer, amountIn, expected, minOut) ==
  [step |-> step, kind |-> "swap", signer |-> signer, token |-> "usdc", to |-> signer,
   amount |-> amountIn, status |-> "pending", expected |-> expected, minOut |-> minOut]

\* the pool after a swap of the stablecoin for the native token: the next
\* quote is lower
AfterSwap(quote) == IF quote > 0 THEN quote - 1 ELSE 0

GcLoc0 == [err |-> FALSE, txId |-> 0, wallet |-> "null", minOut |-> 0, expected |-> 0]

GcCur == [pc |-> gcPc, loc |-> gcLoc, log |-> txLog, bal |-> tokenBal, eth |-> ethBal,
          allowance |-> allowance, faults |-> faults, quote |-> poolQuote]

GcApply(r) ==
  /\ gcPc' = r.pc
  /\ gcLoc' = r.loc
  /\ txLog' = r.log
  /\ tokenBal' = r.bal
  /\ ethBal' = r.eth
  /\ allowance' = r.allowance
  /\ faults' = r.faults
  /\ poolQuote' = r.quote
  /\ UNCHANGED << schedVars, fcVars, envVars, facts, cli >>

GcReturn == [GcCur EXCEPT !.pc = "finally"]

GcThrow == [GcCur EXCEPT !.pc = "finally", !.loc = [gcLoc EXCEPT !.err = TRUE]]

GcSpent(r) == [r EXCEPT !.faults = faults - 1]

\* lines 69-72: `chainConfig.usdc_weth_pair === ethers.ZeroAddress`
NoPairConfigured(chain) == chain = "zero"

\* line 96: `if (ethBalanceUsd >= config.gas_low_threshold_usd) return`
GasSufficient(ethBalanceUsdCents) == ethBalanceUsdCents >= GasLowThresholdUsd * 100

\* a swap attempted whatever the server holds
UsdcInsufficient_unchecked(usdcBalance) == FALSE

\* line 116: `if (usdcBalance < swapAmountUsdc)` skip the swap
UsdcInsufficient(usdcBalance) == usdcBalance < SwapAmountUsdc

\* an allowance taken as sufficient whatever it is
NeedsApproval_never(currentAllowance, swapAmountUsdc) == FALSE

\* line 131: `if (allowance < swapAmountUsdc)` approve the router
NeedsApproval(currentAllowance, swapAmountUsdc) == currentAllowance < swapAmountUsdc

\* one guard for both kinds of run
GasCheckGuard_shared(fundGuard, gasGuard) == fundGuard \/ gasGuard

\* line 122: of the two module-level guards, the one runGasCheck tests
GasCheckGuard(fundGuard, gasGuard) == gasGuard

\* lines 121-127 and the synchronous head of checkAndSwapGas (line 53)
runGasCheck ==
  /\ gcStat.calls < MaxCalls
  /\ IF GuardHeld(GasCheckGuard(fundCycleInProgress, gasCheckInProgress))
     THEN /\ gcStat' = [gcStat EXCEPT !.calls = @ + 1, !.skips = @ + 1]
          /\ UNCHANGED << gasCheckInProgress, last_fund_cycle, last_gas_check, gcPc, gcLoc >>
     ELSE IF BookIsEmpty(loadAddressbook)
     THEN /\ gcStat' = Ended([gcStat EXCEPT !.calls = @ + 1, !.runs = @ + 1],
                             "emptybook", FALSE)
          /\ Persist(updateState(PersistedState, "last_gas_check", now))
          /\ gasCheckInProgress' = GuardAfterFinally
          /\ UNCHANGED << gcPc, gcLoc >>
     ELSE /\ gcStat' = [gcStat EXCEPT !.calls = @ + 1, !.runs = @ + 1]
          /\ gasCheckInProgress' = TRUE
          /\ gcPc' = "check"
          /\ gcLoc' = [GcLoc0 EXCEPT !.wallet = resolveWallet("server", loadAddressbook)]
          /\ UNCHANGED << last_fund_cycle, last_gas_check >>
  /\ UNCHANGED << now, fundCycleInProgress, fcStat, contractEnv, diskBook, hotGen, fcVars,
                  chainVars, envVars, facts, faults, cli >>

\* checkAndSwapGas lines 53-136: the checks, up to the approve submission
CheckAndSwapGas ==
  /\ gcPc = "check"
  /\ \E f \in MayFail("none", {"network", "price", "usdcBalance", "allowance", "approve"}) :
       LET server == gcLoc.wallet
           ethBalanceUsdCents == ethBal[server] * EthPriceCents
           usdcBalance == tokenBal[server]["usdc"]
           tx == Tx("gasCheck", "approve", server, "usdc", Router, MaxUint256)
       IN GcApply(
            IF server = "null" THEN GcReturn
            ELSE IF server = "throw" THEN GcThrow
            ELSE IF f = "network" THEN GcSpent(GcThrow)
            ELSE IF chainConfig = "null" THEN GcReturn
            ELSE IF NoPairConfigured(chainConfig) THEN GcReturn
            ELSE IF chainConfig = "empty" THEN GcThrow
            ELSE IF f = "price" THEN GcSpent(GcThrow)
            ELSE IF GasSufficient(ethBalanceUsdCents) THEN GcReturn
            ELSE IF f = "usdcBalance" THEN GcSpent(GcThrow)
            ELSE IF UsdcInsufficient(usdcBalance) THEN GcReturn
            ELSE IF f = "allowance" THEN GcSpent(GcThrow)
            ELSE IF ~NeedsApproval(allowance, SwapAmountUsdc) THEN [GcCur EXCEPT !.pc = "quote"]
            ELSE IF f = "approve" THEN GcSpent([GcThrow EXCEPT !.log = Rejected(tx)])
            ELSE [GcCur EXCEPT !.pc = "approveWait", !.log = Submit(tx),
                               !.loc = [gcLoc EXCEPT !.txId = Len(txLog) + 1]])

\* line 135: approveTx.wait()
GasApproveWait ==
  /\ gcPc = "approveWait"
  /\ \E f \in MayFail("none", {"revert"}) :
       GcApply(
         IF f = "revert"
         THEN GcSpent([GcThrow EXCEPT !.log = Settle(txLog, gcLoc.txId, "failed")])
         ELSE [GcCur EXCEPT !.pc = "quote", !.allowance = MaxUint256,
                            !.log = Settle(txLog, gcLoc.txId, "confirmed")])

\* lines 138-156: quote, slippage bound, swap submission
GasSwapSubmit ==
  /\ gcPc = "quote"
  /\ \E f \in MayFail("none", {"quote", "submit"}) :
       LET server == gcLoc.wallet
           expectedEth == poolQuote
           minEthOut == MinEthOut(expectedEth)
           tx == SwapTx("gasCheck", server, SwapAmountUsdc, expectedEth, minEthOut)
       IN GcApply(
            IF f = "quote" THEN GcSpent(GcThrow)
            ELSE IF f = "submit" THEN GcSpent([GcThrow EXCEPT !.log = Rejected(tx)])
            ELSE [GcCur EXCEPT !.pc = "swapWait", !.log = Submit(tx),
                               !.loc = [gcLoc EXCEPT !.txId = Len(txLog) + 1,
                                                     !.minOut = minEthOut,
                                                     !.expected = expectedEth]])

\* lines 157-162: tx.wait() and the new balance; the pool pays between the
\* slippage bound and the quote, or the swap reverts
GasSwapWait ==
  /\ gcPc = "swapWait"
  /\ \E f \in MayFail("none", {"revert", "newBalance"}) :
     \E out \in {gcLoc.minOut, gcLoc.expected} :
       LET tx == txLog[gcLoc.txId]
           done == [GcCur EXCEPT
                      !.pc = "finally",
                      !.log = Settle(txLog, gcLoc.txId, "confirmed"),
                      !.allowance = @ - tx.amount,
                      !.bal = [tokenBal EXCEPT ![tx.signer]["usdc"] = @ - tx.amount],
                      !.eth = [ethBal EXCEPT ![tx.signer] = @ + out],
                      !.quote = AfterSwap(poolQuote)]
       IN GcApply(
            IF \/ f = "revert"
               \/ allowance < tx.amount
               \/ ~TransferAllowed(tokenBal, "usdc", tx.signer, tx.amount)
            THEN [GcThrow EXCEPT !.log = Settle(txLog, gcLoc.txId, "failed"),
                                 !.faults = Spend(IF f = "revert" THEN f ELSE "none", "none")]
            ELSE IF f = "newBalance"
            THEN GcSpent([done EXCEPT !.loc = [gcLoc EXCEPT !.err = TRUE]])
            ELSE done)

\* runGasCheck lines 130-135: catch, then finally
GasCheckFinally ==
  /\ gcPc = "finally"
  /\ gcStat' = Ended(gcStat, IF gcLoc.err THEN "threw" ELSE "complete", gcLoc.err)
  /\ Persist(updateState(PersistedState, "last_gas_check", now))
  /\ gasCheckInProgress' = GuardAfterFinally
  /\ gcPc' = "idle"
  /\ gcLoc' = GcLoc0
  /\ UNCHANGED << now, fundCycleInProgress, fcStat, contractEnv, diskBook, hotGen, fcVars,
                  chainVars, envVars, facts, faults, cli >>

PollGasCheck == shouldRunGasCheck /\ runGasCheck

---------------------------------------------------------------------------
(* bw withdraw: executeWithdraw and executeWithdrawAll *)
Cli0 == [pc |-> "idle", op |-> "none", token |-> "none", toRole |-> "none",
         tokens |-> << >>, idx |-> 0, txId |-> 0, execBalance |-> -1,
         execResult |-> "none", result |-> "none", results |-> 0,
         amount |-> 0, wallet |-> "none",
         name |-> "none", address |-> "none", argsOk |-> TRUE, error |-> "none",
         exit |-> -1, saved |-> FALSE, generated |-> FALSE, commands |-> 0,
         target |-> "none", gasCost |-> 0, tasks |-> << >>,
         ratios |-> << >>, recipientRoles |-> << >>, recipients |-> << >>,
         fromRole |-> "none", remaining |-> 0]

CliCur == [cli |-> cli, log |-> txLog, bal |-> tokenBal, facts |-> facts, faults |-> faults,
           eth |-> ethBal, allowance |-> allowance, quote |-> poolQuote]

CliApply(r) ==
  /\ cli' = r.cli
  /\ txLog' = r.log
  /\ tokenBal' = r.bal
  /\ facts' = r.facts
  /\ faults' = r.faults
  /\ ethBal' = r.eth
  /\ allowance' = r.allowance
  /\ poolQuote' = r.quote
  /\ UNCHANGED << schedVars, fcVars, gcVars, envVars >>

CliSpent(r) == [r EXCEPT !.faults = faults - 1]

\* tokens.set(tokenAddress.toLowerCase(), tokenAddress): a key keeps its
\* place in the Map's order, its value is the address set last
MapSet(acc, addr) ==
  IF \E k \in 1..Len(acc) : toLowerCase(acc[k]) = toLowerCase(addr)
  THEN [k \in 1..Len(acc) |-> IF toLowerCase(acc[k]) = toLowerCase(addr) THEN addr ELSE acc[k]]
  ELSE Append(acc, addr)

RECURSIVE CollectAll(_, _, _)
CollectAll(pms, i, acc) ==
  IF i > Len(pms) THEN acc
  ELSE CollectAll(pms, i + 1, IF pms[i].active THEN MapSet(acc, pms[i].tokenAddress) ELSE acc)

\* the operator's command line: one token, or every token, to a role
BwWithdraw ==
  /\ cli.pc = "idle"
  /\ \E toRole \in {"hot", "broker"} :
       \/ \E tokenArg \in {"USDC", "TKN"} :
            cli' = [Cli0 EXCEPT !.op = "one", !.toRole = toRole, !.token = tokenArg,
                                !.pc = "exec"]
       \/ cli' = [Cli0 EXCEPT !.op = "all", !.toRole = toRole, !.pc = "allCollect"]
  /\ UNCHANGED << schedVars, fcVars, gcVars, chainVars, envVars, facts, faults >>

\* an exception leaves executeWithdraw, and executeWithdrawAll when it is the caller
CliThrow(r) ==
  [r EXCEPT !.cli = [cli EXCEPT !.pc = "done", !.result = "throw",
                                !.execResult = IF cli.pc \in {"exec", "execWait"}
                                               THEN "throw" ELSE @]]

\* executeWithdraw returns `result` ("null" or "hash") to its caller
CliReturn(r, balance, result) ==
  LET c == [cli EXCEPT !.execBalance = balance, !.execResult = result,
                       !.results = IF result = "hash" THEN @ + 1 ELSE @]
  IN [r EXCEPT !.cli =
        IF cli.op = "one" THEN [c EXCEPT !.pc = "done", !.result = result]
        ELSE IF cli.idx < Len(cli.tokens)
          THEN [c EXCEPT !.pc = "allToken", !.idx = @ + 1]
        ELSE [c EXCEPT !.pc = "done", !.result = "results"]]

\* `continue` in the loop of executeWithdrawAll
CliContinue(r) ==
  [r EXCEPT !.cli = IF cli.idx < Len(cli.tokens)
                    THEN [cli EXCEPT !.pc = "allToken", !.idx = @ + 1]
                    ELSE [cli EXCEPT !.pc = "done", !.result = "results"]]

\* a withdrawal that does not look at the balance
NothingToWithdraw_unchecked(balance) == FALSE

\* withdraw.ts line 38 (`if (balance === 0n) return null`) and line 72
NothingToWithdraw(balance) == balance = 0

\* lines 56-67: payment method ids, unique active tokens
executeWithdrawAll ==
  /\ cli.pc = "allCollect"
  /\ \E f \in MayFail(0, {-1} \cup (1..Len(paymentMethods))) :
       LET tokens == CollectAll(paymentMethods, 1, << >>) IN
       CliApply(
         IF f # 0 THEN CliSpent(CliThrow(CliCur))
         ELSE IF Len(tokens) = 0
           THEN [CliCur EXCEPT !.cli = [cli EXCEPT !.pc = "done", !.result = "results"]]
         ELSE [CliCur EXCEPT !.cli = [cli EXCEPT !.pc = "allToken", !.tokens = tokens,
                                                  !.idx = 1]])

\* lines 69-79: one token of the loop, up to the call of executeWithdraw
executeWithdrawAllToken ==
  /\ cli.pc = "allToken"
  /\ \E f \in MayFail("none", {"balance", "symbol"}) :
       LET tokenAddress == cli.tokens[cli.idx]
           balance == tokenBal[Escrow][toLowerCase(tokenAddress)]
           read == [CliCur EXCEPT !.facts = Append(facts,
                      Fact("cliAll", toLowerCase(tokenAddress), balance, FALSE))]
       IN /\ f = "symbol" => ~NothingToWithdraw(balance)
          /\ CliApply(
               IF f = "balance" THEN CliSpent(CliThrow(CliCur))
               ELSE IF NothingToWithdraw(balance) THEN CliContinue(read)
               ELSE IF f = "symbol" THEN CliSpent(CliThrow(read))
               ELSE [read EXCEPT !.cli = [cli EXCEPT !.pc = "exec",
                                                     !.token = tokenAddress,
                                                     !.execBalance = -1,
                                                     !.execResult = "none"]])

\* lines 29-41: signer, recipient, balance, submission of withdrawFunds
executeWithdraw ==
  /\ cli.pc = "exec"
  /\ \E f \in MayFail("none", {"balance", "submit"}) :
       LET serverWallet == resolveWallet("server", loadAddressbook)
           toAddress == resolveAddress(cli.toRole, loadAddressbook)
           token == toLowerCase(cli.token)
           balance == tokenBal[Escrow][token]
           tx == Tx("cli", "withdrawFunds", serverWallet, token, toAddress, balance)
           read == [CliCur EXCEPT !.facts = Append(facts, Fact("cli", token, balance, FALSE))]
       IN /\ f # "none" => serverWallet \notin {"null", "throw"} /\ toAddress # "null"
          /\ f = "submit" => ~NothingToWithdraw(balance)
          /\ CliApply(
               IF serverWallet \in {"null", "throw"} THEN CliThrow(CliCur)
               ELSE IF toAddress = "null" THEN CliThrow(CliCur)
               ELSE IF f = "balance" THEN CliSpent(CliThrow(CliCur))
               ELSE IF NothingToWithdraw(balance) THEN CliReturn(read, balance, "null")
               ELSE IF f = "submit"
                 THEN CliSpent(CliThrow([read EXCEPT !.log = Rejected(tx)]))
               ELSE [read EXCEPT !.log = Submit(tx),
                                 !.cli = [cli EXCEPT !.pc = "execWait",
                                                     !.execBalance = balance,
                                                     !.txId = Len(txLog) + 1]])

\* lines 42-43: tx.wait(), then the receipt's hash
executeWithdrawWait ==
  /\ cli.pc = "execWait"
  /\ \E f \in MayFail("none", {"revert"}) :
       LET tx == txLog[cli.txId] IN
       CliApply(
         IF f = "revert"
         THEN CliSpent(CliThrow([CliCur EXCEPT !.log = Settle(txLog, cli.txId, "failed")]))
         ELSE CliReturn([CliCur EXCEPT
                           !.log = Settle(txLog, cli.txId, "confirmed"),
                           !.bal = WithdrawFundsEffect(tokenBal, tx.token, tx.to)],
                        cli.execBalance, "hash"))

---------------------------------------------------------------------------
(* bw swap: swapCommand and executeSwap *)

\* swap.ts line 54: `(amounts[1] * 98n) / 100n`, on bigints
MinOut(amountOut) == (amountOut * 98) \div 100

\* swap.ts line 46: `if (allowance < amountIn)` approve the router
AllowanceShort(currentAllowance, amountIn) == currentAllowance < amountIn

\* swapCommand lines 77-97: the operator's command line, a positive amount
\* of a token for "eth", signed by a wallet role
BwSwap ==
  /\ cli.pc = "idle"
  /\ \E amountStr \in {1, GasSwapAmountUsd} :
     \E fromTokenArg \in {"stable", "eth"} :
     \E walletRole \in {"server", "admin"} :
       cli' = [Cli0 EXCEPT !.op = "swap", !.amount = amountStr, !.token = fromTokenArg,
                           !.wallet = walletRole, !.pc = "swap"]
  /\ UNCHANGED << schedVars, fcVars, gcVars, chainVars, envVars, facts, faults >>

\* executeSwap lines 28-47: signer, chain, token, allowance, up to the
\* approve submission
executeSwap ==
  /\ cli.pc = "swap"
  /\ \E f \in MayFail("none", {"network", "token", "allowance", "approve"}) :
       LET signer == resolveWallet(cli.wallet, loadAddressbook)
           amountIn == cli.amount
           tx == Tx("cliSwap", "approve", signer, "usdc", Router, MaxUint256)
       IN /\ f # "none" => signer \notin {"null", "throw"}
          /\ f \in {"token", "allowance", "approve"} => chainConfig # "null"
          /\ f \in {"allowance", "approve"} => cli.token # "eth"
          /\ f = "approve" => AllowanceShort(allowance, amountIn)
          /\ CliApply(
               IF signer \in {"null", "throw"} THEN CliThrow(CliCur)
               ELSE IF f = "network" THEN CliSpent(CliThrow(CliCur))
               ELSE IF chainConfig = "null" THEN CliThrow(CliCur)
               ELSE IF f = "token" THEN CliSpent(CliThrow(CliCur))
               ELSE IF cli.token = "eth" THEN CliThrow(CliCur)
               ELSE IF f = "allowance" THEN CliSpent(CliThrow(CliCur))
               ELSE IF ~AllowanceShort(allowance, amountIn)
                 THEN [CliCur EXCEPT !.cli = [cli EXCEPT !.pc = "swapQuote"]]
               ELSE IF f = "approve"
                 THEN CliSpent(CliThrow([CliCur EXCEPT !.log = Rejected(tx)]))
               ELSE [CliCur EXCEPT !.log = Submit(tx),
                                   !.cli = [cli EXCEPT !.pc = "swapApproveWait",
                                                       !.txId = Len(txLog) + 1]])

\* line 48: approveTx.wait()
executeSwapApproveWait ==
  /\ cli.pc = "swapApproveWait"
  /\ \E f \in MayFail("none", {"revert"}) :
       CliApply(
         IF f = "revert"
         THEN CliSpent(CliThrow([CliCur EXCEPT !.log = Settle(txLog, cli.txId, "failed")]))
         ELSE [CliCur EXCEPT !.log = Settle(txLog, cli.txId, "confirmed"),
                             !.allowance = MaxUint256,
                             !.cli = [cli EXCEPT !.pc = "swapQuote"]])

\* lines 52-63: quote, slippage bound, swap submission
executeSwapSubmit ==
  /\ cli.pc = "swapQuote"
  /\ \E f \in MayFail("none", {"quote", "submit"}) :
       LET walletAddress == resolveWallet(cli.wallet, loadAddressbook)
           amountOut == poolQuote
           minOut == MinOut(amountOut)
           tx == SwapTx("cliSwap", walletAddress, cli.amount, amountOut, minOut)
       IN CliApply(
            IF f = "quote" THEN CliSpent(CliThrow(CliCur))
            ELSE IF f = "submit" THEN CliSpent(CliThrow([CliCur EXCEPT !.log = Rejected(tx)]))
            ELSE [CliCur EXCEPT !.log = Submit(tx),
                                !.cli = [cli EXCEPT !.pc = "swapWait",
                                                    !.txId = Len(txLog) + 1]])

\* lines 64-65: tx.wait(), then the receipt's hash; the pool pays between
\* the slippage bound and the quote, or the swap reverts
executeSwapWait ==
  /\ cli.pc = "swapWait"
  /\ \E f \in MayFail("none", {"revert"}) :
       LET tx == txLog[cli.txId] IN
       \E out \in {tx.minOut, tx.expected} :
         CliApply(
           IF \/ f = "revert"
              \/ allowance < tx.amount
              \/ ~TransferAllowed(tokenBal, "usdc", tx.signer, tx.amount)
           THEN [CliThrow([CliCur EXCEPT !.log = Settle(txLog, cli.txId, "failed")])
                   EXCEPT !.faults = Spend(IF f = "revert" THEN f ELSE "none", "none")]
           ELSE [CliCur EXCEPT
                   !.log = Settle(txLog, cli.txId, "confirmed"),
                   !.allowance = @ - tx.amount,
                   !.bal = [tokenBal EXCEPT ![tx.signer]["usdc"] = @ - tx.amount],
                   !.eth = [ethBal EXCEPT ![tx.signer] = @ + out],
                   !.quote = AfterSwap(poolQuote),
                   !.cli = [cli EXCEPT !.pc = "done", !.result = "hash"]])

---------------------------------------------------------------------------
(* ab: the addressbook commands add, up, del, new *)

\* the reserved roles but for hot
IMMUTABLE_ROLES_withoutHot == {"server", "admin", "dev", "broker"}

\* ab/index.ts line 21
IMMUTABLE_ROLES == {"server", "admin", "hot", "dev", "broker"}

\* the names an operator gives: the reserved roles and a name of their own
AbNames == Roles \cup {"alice"}

AbAddresses == {"0xa1", "0xa2", "zz"}

\* ethers.isAddress
isAddress(address) == address \in {"0xa1", "0xa2"}

\* the addressbook file with the operator's entry beside the roles
AbEntries(e, own) == [n \in AbNames |-> IF n \in Roles THEN e[n] ELSE own]

\* main: the command, its name argument, its address argument (add, up)
\* and whether the number of arguments is the one the command takes
AbMain ==
  /\ cli.pc = "idle"
  /\ cli.commands < MaxCalls
  /\ \E command \in {"add", "up", "del", "new"} :
     \E name \in AbNames :
     \E address \in IF command \in {"add", "up"} THEN AbAddresses ELSE {"none"} :
     \E argsOk \in BOOLEAN :
       cli' = [Cli0 EXCEPT !.op = command, !.name = name, !.address = address,
                           !.argsOk = argsOk, !.pc = "ab",
                           !.commands = cli.commands + 1]
  /\ UNCHANGED << schedVars, fcVars, gcVars, chainVars, envVars, facts, faults >>

\* process.exit(1) after console.error
AbExit(error) == [cli EXCEPT !.pc = "done", !.error = error, !.exit = 1]

\* the command returns and the process ends with status 0
AbDone(saved, generated) ==
  [cli EXCEPT !.pc = "done", !.exit = 0, !.saved = saved, !.generated = generated]

AbApply(c, entries, f) ==
  /\ cli' = c
  /\ diskBook' = entries
  /\ faults' = Spend(f, "none")
  /\ UNCHANGED << now, last_fund_cycle, last_gas_check, fundCycleInProgress,
                  gasCheckInProgress, fcStat, gcStat, contractEnv, hotGen, fcVars, gcVars,
                  chainVars, envVars, facts >>

\* addCommand (new.ts lines 43-71); a failed save is logged by
\* saveAddressbook and the command goes on
addCommand ==
  /\ cli.pc = "ab"
  /\ cli.op = "add"
  /\ \E f \in MayFail("none", {"save"}) :
       LET book0 == loadAddressbook
           ok == cli.argsOk /\ cli.name \notin IMMUTABLE_ROLES /\ isAddress(cli.address)
                   /\ BookGet(book0, cli.name) = NoEntry
       IN /\ f = "save" => ok
          /\ IF ~cli.argsOk THEN AbApply(AbExit("usage"), diskBook, f)
             ELSE IF cli.name \in IMMUTABLE_ROLES THEN AbApply(AbExit("reserved"), diskBook, f)
             ELSE IF ~isAddress(cli.address) THEN AbApply(AbExit("invalid"), diskBook, f)
             ELSE IF BookGet(book0, cli.name) # NoEntry
               THEN AbApply(AbExit("exists"), diskBook, f)
             ELSE AbApply(AbDone(TRUE, FALSE),
                          IF f = "save" THEN diskBook
                          ELSE [diskBook EXCEPT ![cli.name] =
                                  [address |-> cli.address, keyfile |-> "none"]],
                          f)

\* upCommand (lines 9-37)
upCommand ==
  /\ cli.pc = "ab"
  /\ cli.op = "up"
  /\ \E f \in MayFail("none", {"save"}) :
       LET book0 == loadAddressbook
           ok == cli.argsOk /\ cli.name \notin IMMUTABLE_ROLES /\ isAddress(cli.address)
                   /\ BookGet(book0, cli.name) # NoEntry
       IN /\ f = "save" => ok
          /\ IF ~cli.argsOk THEN AbApply(AbExit("usage"), diskBook, f)
             ELSE IF cli.name \in IMMUTABLE_ROLES THEN AbApply(AbExit("reserved"), diskBook, f)
             ELSE IF ~isAddress(cli.address) THEN AbApply(AbExit("invalid"), diskBook, f)
             ELSE IF BookGet(book0, cli.name) = NoEntry
               THEN AbApply(AbExit("notfound"), diskBook, f)
             ELSE AbApply(AbDone(TRUE, FALSE),
                          IF f = "save" THEN diskBook
                          ELSE [diskBook EXCEPT ![cli.name].address = cli.address],
                          f)

\* delCommand: the argument count, the reserved roles, the entry, the save
delCommand ==
  /\ cli.pc = "ab"
  /\ cli.op = "del"
  /\ \E f \in MayFail("none", {"save"}) :
       LET book0 == loadAddressbook
           ok == cli.argsOk /\ cli.name \notin IMMUTABLE_ROLES
                   /\ BookGet(book0, cli.name) # NoEntry
       IN /\ f = "save" => ok
          /\ IF ~cli.argsOk THEN AbApply(AbExit("usage"), diskBook, f)
             ELSE IF cli.name \in IMMUTABLE_ROLES THEN AbApply(AbExit("reserved"), diskBook, f)
             ELSE IF BookGet(book0, cli.name) = NoEntry
               THEN AbApply(AbExit("notfound"), diskBook, f)
             ELSE AbApply(AbDone(TRUE, FALSE),
                          IF f = "save" THEN diskBook
                          ELSE [diskBook EXCEPT ![cli.name] = NoEntry],
                          f)

\* newCommand (new.ts lines 9-33): the root agent generates the key and
\* adds the entry; its failure leaves main through catch, status 1
newCommand ==
  /\ cli.pc = "ab"
  /\ cli.op = "new"
  /\ \E f \in MayFail("none", {"generate"}) :
       LET book0 == loadAddressbook
           ok == cli.argsOk /\ cli.name \notin IMMUTABLE_ROLES
                   /\ BookGet(book0, cli.name) = NoEntry
       IN /\ f = "generate" => ok
          /\ IF ~cli.argsOk THEN AbApply(AbExit("usage"), diskBook, f)
             ELSE IF cli.name \in IMMUTABLE_ROLES THEN AbApply(AbExit("reserved"), diskBook, f)
             ELSE IF BookGet(book0, cli.name) # NoEntry
               THEN AbApply(AbExit("exists"), diskBook, f)
             ELSE IF f = "generate" THEN AbApply(AbExit("agent"), diskBook, f)
             ELSE AbApply(AbDone(FALSE, TRUE),
                          [diskBook EXCEPT ![cli.name] =
                             [address |-> AddressOf(cli.name), keyfile |-> "ok"]],
                          f)

\* the process has ended; the operator may give another command
AbEnd ==
  /\ cli.pc = "done"
  /\ cli.op \in {"add", "up", "del", "new"}
  /\ cli' = [Cli0 EXCEPT !.commands = cli.commands]
  /\ UNCHANGED << schedVars, fcVars, gcVars, chainVars, envVars, facts, faults >>

---------------------------------------------------------------------------
(* bw --debug --cleanup: cleanupCommand *)
MaxGasCost == 10

\* Object.entries(book): the entries in the order of the file
EntryOrder == << "server", "hot", "admin", "dev", "broker", "alice" >>

\* lines 185-190: the roles with a keyfile whose address is not the target
SweepRoles(b, target) ==
  SelectSeq(EntryOrder, LAMBDA role :
    /\ BookGet(b, role) # NoEntry
    /\ BookGet(b, role).keyfile # "none"
    /\ toLowerCase(BookGet(b, role).address) # toLowerCase(target))

\* line 212: `gasCost + gasCost / 10n`
GasCostWithMargin(gasCost) == gasCost + gasCost \div 10

\* lines 231-237: nothing to send
SweepSkipped(balance, gasCostWithMargin) == balance = 0 \/ balance <= gasCostWithMargin

\* line 239
SendAmount(balance, gasCostWithMargin) == balance - gasCostWithMargin

\* lines 221-253: one task per role whose wallet loads, each run up to its
\* first await
RECURSIVE SweepTasks(_, _, _)
SweepTasks(roles, b, i) ==
  IF i > Len(roles) THEN << >>
  ELSE LET wallet == resolveWallet(roles[i], b)
           rest == SweepTasks(roles, b, i + 1)
       IN IF wallet = "null" THEN rest
          ELSE << [role |-> roles[i], wallet |-> wallet, pc |-> "balance",
                   balance |-> -1, txId |-> 0, result |-> "none"] >> \o rest

\* the command line: a target address, valid or not
BwCleanup ==
  /\ cli.pc = "idle"
  /\ \E target \in {AddressOf("admin"), AddressOf("hot"), "zz"} :
       cli' = [Cli0 EXCEPT !.op = "cleanup", !.target = target, !.pc = "cleanup"]
  /\ UNCHANGED << schedVars, fcVars, gcVars, chainVars, envVars, facts, faults >>

\* lines 171-253: target, roles, gas price, the tasks started
cleanupCommand ==
  /\ cli.pc = "cleanup"
  /\ \E f \in MayFail("none", {"feeData"}) :
     \E gasCost \in {MaxGasCost \div 2, MaxGasCost} :
       LET book0 == loadAddressbook
           roles == SweepRoles(book0, cli.target)
       IN /\ f = "feeData" => cli.target # "zz" /\ Len(roles) > 0
          /\ CliApply(
               IF cli.target = "zz"
                 THEN [CliCur EXCEPT !.cli = [cli EXCEPT !.pc = "done", !.exit = 1]]
               ELSE IF Len(roles) = 0
                 THEN [CliCur EXCEPT !.cli = [cli EXCEPT !.pc = "done", !.exit = 0]]
               ELSE IF f = "feeData"
                 THEN CliSpent([CliCur EXCEPT !.cli = [cli EXCEPT !.pc = "done", !.exit = 1]])
               ELSE [CliCur EXCEPT !.cli = [cli EXCEPT !.pc = "sweep", !.gasCost = gasCost,
                                                        !.tasks = SweepTasks(roles, book0, 1)]])

SetTask(r, k, task) == [r EXCEPT !.cli = [cli EXCEPT !.tasks[k] = task]]

\* lines 230-245 of task k: the balance, then sendTransaction is called
SweepBalance ==
  /\ cli.pc = "sweep"
  /\ \E k \in 1..Len(cli.tasks) :
     \E f \in MayFail("none", {"balance"}) :
       LET task == cli.tasks[k]
           balance == ethBal[task.wallet]
           gasCostWithMargin == GasCostWithMargin(cli.gasCost)
       IN /\ task.pc = "balance"
          /\ CliApply(
               IF f = "balance"
                 THEN CliSpent(SetTask(CliCur, k, [task EXCEPT !.pc = "rejected"]))
               ELSE IF SweepSkipped(balance, gasCostWithMargin)
                 THEN SetTask(CliCur, k, [task EXCEPT !.pc = "done", !.balance = balance,
                                                       !.result = "skipped"])
               ELSE SetTask(CliCur, k, [task EXCEPT !.pc = "send", !.balance = balance]))

\* line 242 of task k: the node takes the transaction, or refuses it
SweepSend ==
  /\ cli.pc = "sweep"
  /\ \E k \in 1..Len(cli.tasks) :
     \E f \in MayFail("none", {"submit"}) :
       LET task == cli.tasks[k]
           sendAmount == SendAmount(task.balance, GasCostWithMargin(cli.gasCost))
           tx == Tx("cleanup", "send", task.wallet, "eth", cli.target, sendAmount)
       IN /\ task.pc = "send"
          /\ CliApply(
               IF f = "submit" \/ ethBal[task.wallet] < sendAmount + cli.gasCost
                 THEN [SetTask(CliCur, k, [task EXCEPT !.pc = "done", !.result = "failed"])
                         EXCEPT !.log = Rejected(tx), !.faults = Spend(f, "none")]
               ELSE [SetTask(CliCur, k, [task EXCEPT !.pc = "wait",
                                                      !.txId = Len(txLog) + 1])
                       EXCEPT !.log = Submit(tx)])

\* line 246 of task k: tx.wait()
SweepWait ==
  /\ cli.pc = "sweep"
  /\ \E k \in 1..Len(cli.tasks) :
     \E f \in MayFail("none", {"dropped"}) :
       LET task == cli.tasks[k]
           tx == txLog[task.txId]
       IN /\ task.pc = "wait"
          /\ CliApply(
               IF f = "dropped" \/ ethBal[tx.signer] < tx.amount + cli.gasCost
                 THEN [SetTask(CliCur, k, [task EXCEPT !.pc = "done", !.result = "failed"])
                         EXCEPT !.log = Settle(txLog, task.txId, "failed"),
                                !.faults = Spend(f, "none")]
               ELSE [SetTask(CliCur, k, [task EXCEPT !.pc = "done", !.result = "hash"])
                       EXCEPT !.log = Settle(txLog, task.txId, "confirmed"),
                              !.eth = [ethBal EXCEPT ![tx.signer] = @ - tx.amount - cli.gasCost,
                                                     ![tx.to] = @ + tx.amount]])

\* lines 255-279: Promise.all(tasks), then the summary; a task whose balance
\* read threw rejects it
cleanupSummary ==
  /\ cli.pc = "sweep"
  /\ \/ \A k \in 1..Len(cli.tasks) : cli.tasks[k].pc = "done"
     \/ \E k \in 1..Len(cli.tasks) : cli.tasks[k].pc = "rejected"
  /\ cli' = [cli EXCEPT !.pc = "done",
                        !.exit = IF \E k \in 1..Len(cli.tasks) : cli.tasks[k].pc = "rejected"
                                 THEN 1 ELSE 0]
  /\ UNCHANGED << schedVars, fcVars, gcVars, chainVars, envVars, facts, faults >>

---------------------------------------------------------------------------
(* bw split: splitCommand *)
MaxSplit == 10

\* Number(s) of one "/"-separated piece of the ratios argument: NaN, or a
\* number held in halves of a unit (Pct(60) is 60, Half(25) is 25.5)
NaN == [nan |-> TRUE, halves |-> 0]

Pct(n) == [nan |-> FALSE, halves |-> 2 * n]

Half(n) == [nan |-> FALSE, halves |-> 2 * n + 1]

RECURSIVE RatioSum(_)
RatioSum(ratios) ==
  IF ratios = << >> THEN 0 ELSE Head(ratios).halves + RatioSum(Tail(ratios))

\* a validation that lets any ratios through
RatiosAccepted_any(ratios, recipientRoles) == TRUE

\* lines 39-55: no NaN, none <= 0, the sum 100, one ratio per recipient
RatiosAccepted(ratios, recipientRoles) ==
  /\ \A k \in 1..Len(ratios) : ~ratios[k].nan /\ ratios[k].halves > 0
  /\ RatioSum(ratios) = 2 * 100
  /\ Len(ratios) = Len(recipientRoles)

\* BigInt(ratios[i]) throws a RangeError on a number that is not an integer
BigIntThrows(ratio) == ratio.halves % 2 # 0

BigInt(ratio) == ratio.halves \div 2

\* lines 86-89 and 114-117
Share(total, ratio, remaining, isLast) ==
  IF isLast THEN remaining ELSE (total * BigInt(ratio)) \div 100

\* the command line
BwSplit ==
  /\ cli.pc = "idle"
  /\ \E amount \in {0, 1, MaxSplit - 3, MaxSplit} :
     \E tokenArg \in {"eth", "stable"} :
     \E fromRole \in {"hot", "admin"} :
     \E ratios \in {<< Pct(60), Pct(40) >>, << Pct(50), Pct(30), Pct(20) >>,
                    << Pct(100) >>, << Pct(33), Pct(33), Pct(34) >>,
                    << Pct(60), Pct(30) >>, << Pct(0), Pct(100) >>,
                    << Pct(110), Pct(0 - 10) >>, << NaN, Pct(100) >>,
                    << Half(33), Half(66) >>, << Pct(50), Half(25), Half(24) >>} :
     \E recipientRoles \in {<< "dev" >>, << "dev", "broker" >>,
                            << "dev", "broker", "admin" >>, << "dev", "alice" >>} :
       cli' = [Cli0 EXCEPT !.op = "split", !.pc = "split", !.amount = amount,
                           !.token = tokenArg, !.fromRole = fromRole,
                           !.ratios = ratios, !.recipientRoles = recipientRoles]
  /\ UNCHANGED << schedVars, fcVars, gcVars, chainVars, envVars, facts, faults >>

SplitExit(code, error) == [CliCur EXCEPT !.cli = [cli EXCEPT !.pc = "done", !.exit = code,
                                                               !.error = error]]

\* lines 21-79 (and 103-107): the arguments, the signer, the recipients,
\* the token and the total
splitCommand ==
  /\ cli.pc = "split"
  /\ LET book0 == loadAddressbook
         signer == resolveWallet(cli.fromRole, book0)
         recipients == [k \in 1..Len(cli.recipientRoles) |->
                          resolveAddress(cli.recipientRoles[k], book0)]
     IN CliApply(
          IF cli.amount <= 0 THEN SplitExit(1, "amount")
          ELSE IF ~RatiosAccepted(cli.ratios, cli.recipientRoles) THEN SplitExit(1, "ratios")
          ELSE IF signer = "null" THEN SplitExit(1, "signer")
          ELSE IF \E k \in 1..Len(recipients) : recipients[k] = "null"
            THEN SplitExit(1, "recipient")
          ELSE [CliCur EXCEPT !.cli =
                  [cli EXCEPT !.pc = "splitShare", !.wallet = signer,
                              !.recipients = recipients, !.idx = 1,
                              !.token = IF cli.token = "eth" THEN "eth" ELSE "usdc",
                              !.remaining = cli.amount]])

Holds(account, token) == IF token = "eth" THEN ethBal[account] ELSE tokenBal[account][token]

\* lines 85-95 and 113-125: the share of recipient i, then its transfer
splitShare ==
  /\ cli.pc = "splitShare"
  /\ \E f \in MayFail("none", {"submit"}) :
       LET i == cli.idx
           isLast == i = Len(cli.recipients)
           share == Share(cli.amount, cli.ratios[i], cli.remaining, isLast)
           tx == Tx("split", "transfer", cli.wallet, cli.token, cli.recipients[i], share)
       IN /\ f = "submit" => (isLast \/ ~BigIntThrows(cli.ratios[i]))
          /\ CliApply(
               IF ~isLast /\ BigIntThrows(cli.ratios[i]) THEN SplitExit(1, "RangeError")
               ELSE IF f = "submit" \/ Holds(cli.wallet, cli.token) < share
                 THEN [SplitExit(1, "transfer") EXCEPT !.log = Rejected(tx),
                                                       !.faults = Spend(f, "none")]
               ELSE [CliCur EXCEPT !.log = Submit(tx),
                                   !.cli = [cli EXCEPT !.pc = "splitWait",
                                                       !.remaining = @ - share,
                                                       !.txId = Len(txLog) + 1]])

\* lines 96 and 120 (transferToken's wait): the receipt, then the next
\* recipient or "Done."
splitWait ==
  /\ cli.pc = "splitWait"
  /\ \E f \in MayFail("none", {"dropped"}) :
       LET tx == txLog[cli.txId] IN
       CliApply(
         IF f = "dropped" \/ Holds(tx.signer, tx.token) < tx.amount
           THEN CliSpent([SplitExit(1, "transfer") EXCEPT !.log = Settle(txLog, cli.txId, "failed")])
         ELSE [CliCur EXCEPT
                 !.log = Settle(txLog, cli.txId, "confirmed"),
                 !.eth = IF tx.token = "eth"
                         THEN [ethBal EXCEPT ![tx.signer] = @ - tx.amount, ![tx.to] = @ + tx.amount]
                         ELSE ethBal,
                 !.bal = IF tx.token = "eth" THEN tokenBal
                         ELSE Move(tokenBal, tx.token, tx.signer, tx.to, tx.amount),
                 !.cli = IF cli.idx < Len(cli.recipients)
                         THEN [cli EXCEPT !.pc = "splitShare", !.idx = @ + 1]
                         ELSE [cli EXCEPT !.pc = "done", !.exit = 0]])

---------------------------------------------------------------------------
(* The knock handler: executeKnock, closeKnock, startAuthLogMonitor *)
PortMax == 65535

TxHashes == {"0xt1", "0xt2"}

\* a port number of the request or of the configuration: n, or n + 1/2
Port(n) == [n |-> n, whole |-> TRUE]

PortFrac(n) == [n |-> n, whole |-> FALSE]

\* an optional array: absent, or the array
None == [set |-> FALSE, v |-> << >>]

Some(v) == [set |-> TRUE, v |-> v]

\* `x || d` on an optional array (an empty array is truthy)
OrArray(x, d) == IF x.set THEN x.v ELSE d

\* `x || d` on an optional number (undefined and 0 are both falsy, held as 0)
OrNumber(x, d) == IF x = 0 THEN d ELSE x

\* line 34: `!Number.isInteger(port) || port < 1 || port > 65535`
InvalidPort(port) ==
  \/ ~port.whole
  \/ port.n < 1
  \/ port.n > PortMax

\* a filter that takes any port for allowed
PortAllowed_any(port, allowedPorts) == TRUE

\* line 38: `allowedPorts.includes(port)`
PortAllowed(port, allowedPorts) == \E k \in 1..Len(allowedPorts) : allowedPorts[k] = port

\* lines 33-43
FilterPorts(requestedPorts, allowedPorts) ==
  SelectSeq(requestedPorts, LAMBDA port : ~InvalidPort(port) /\ PortAllowed(port, allowedPorts))

\* lines 53-60
Duration(paramDuration, defaultDuration, maxDuration) ==
  LET d0 == OrNumber(paramDuration, defaultDuration)
      d1 == IF d0 > maxDuration THEN maxDuration ELSE d0
  IN IF d1 < 1 THEN 1 ELSE d1

\* openPort: iptables -I INPUT 1
InsertRule(rules, port) == << port >> \o rules

\* closePort: iptables -D removes the first matching rule; when there is
\* none the command fails and the error is caught
RECURSIVE DeleteRule(_, _)
DeleteRule(rules, port) ==
  IF rules = << >> THEN << >>
  ELSE IF Head(rules) = port THEN Tail(rules)
  ELSE << Head(rules) >> \o DeleteRule(Tail(rules), port)

RECURSIVE OpenPorts(_, _, _, _)
OpenPorts(rules, ports, i, last) ==
  IF i > last THEN rules ELSE OpenPorts(InsertRule(rules, ports[i]), ports, i + 1, last)

RECURSIVE ClosePorts(_, _, _)
ClosePorts(rules, ports, i) ==
  IF i > Len(ports) THEN rules ELSE ClosePorts(DeleteRule(rules, ports[i]), ports, i + 1)

NoKnock == [open |-> FALSE, ports |-> << >>, duration |-> 0, timeoutId |-> "none"]

NoRequest == [txHash |-> "none", ports |-> None, duration |-> 0, config |-> None,
              maxDuration |-> 0, authLog |-> FALSE, failAt |-> 0, done |-> FALSE,
              success |-> FALSE]

Knock0 == [activeKnocks |-> [t \in TxHashes |-> NoKnock],
           rules |-> << >>,
           timers |-> {},
           tails |-> {},
           seen |-> {},
           request |-> NoRequest]

Timer(txHash, id) == [txHash |-> txHash, id |-> id]

\* lines 141-161
closeKnock(k, txHash) ==
  LET session == k.activeKnocks[txHash] IN
  IF ~session.open THEN k
  ELSE [k EXCEPT !.timers = @ \ {Timer(txHash, session.timeoutId)},
                 !.rules = ClosePorts(@, session.ports, 1),
                 !.activeKnocks[txHash] = NoKnock]

\* a monitor that leaves the timeout of executeKnock in place
startAuthLogMonitor_keepsTimeout(k, txHash, ports, authLog) ==
  IF ~k.activeKnocks[txHash].open THEN k
  ELSE IF ~(\E i \in 1..Len(ports) : ports[i] = Port(22)) THEN k
  ELSE IF ~authLog THEN k
  ELSE [k EXCEPT !.tails = @ \cup {txHash},
                 !.timers = @ \cup {Timer(txHash, "wrapped")}]

\* lines 170-233: tail is spawned, the wrapped timeout set, the original
\* timeout cleared and knock.timeoutId replaced
startAuthLogMonitor(k, txHash, ports, authLog) ==
  IF ~k.activeKnocks[txHash].open THEN k
  ELSE IF ~(\E i \in 1..Len(ports) : ports[i] = Port(22)) THEN k
  ELSE IF ~authLog THEN k
  ELSE [k EXCEPT !.tails = @ \cup {txHash},
                 !.timers = (@ \cup {Timer(txHash, "wrapped")})
                              \ {Timer(txHash, k.activeKnocks[txHash].timeoutId)},
                 !.activeKnocks[txHash].timeoutId = "wrapped"]

KnockConfigs ==
  { [allowed_ports |-> None, max_duration |-> 0, default_duration |-> 0],
    [allowed_ports |-> Some(<< Port(22), Port(80) >>), max_duration |-> 100,
     default_duration |-> 0],
    [allowed_ports |-> Some(<< Port(80), Port(70000), Port(0) >>), max_duration |-> 0,
     default_duration |-> 900] }

KnockPorts ==
  { None, Some(<< Port(22) >>), Some(<< Port(22), Port(80) >>),
    Some(<< Port(80), Port(22) >>), Some(<< Port(443) >>), Some(<< >>),
    Some(<< PortFrac(22), Port(0), Port(70000) >>), Some(<< Port(80), Port(70000) >>) }

\* a knock command arrives in a transaction not handled before
KnockCommand ==
  /\ ~knock.request.done
  /\ knock.request.txHash = "none"
  /\ \E txHash \in TxHashes \ knock.seen :
     \E ports \in KnockPorts :
     \E duration \in {0, 0 - 5, 1, 300, 700} :
     \E config \in KnockConfigs :
     \E authLog \in BOOLEAN :
       knock' = [knock EXCEPT !.request =
                   [NoRequest EXCEPT !.txHash = txHash, !.ports = ports,
                                     !.duration = duration, !.config = config,
                                     !.authLog = authLog]]
  /\ UNCHANGED << schedVars, fcVars, gcVars, chainVars, paymentMethods, primaryStablecoin,
                  revenueConfig, chainConfig, facts, faults, cli >>

\* lines 21-108, with the call of startAuthLogMonitor; every call in it is
\* synchronous
executeKnock ==
  /\ knock.request.txHash # "none"
  /\ ~knock.request.done
  /\ LET params == knock.request
         config == params.config
         txHash == params.txHash
         allowedPorts == OrArray(config.allowed_ports, << Port(22) >>)
         maxDuration == OrNumber(config.max_duration, 600)
         defaultDuration == OrNumber(config.default_duration, 300)
         requestedPorts == OrArray(params.ports, allowedPorts)
         ports == FilterPorts(requestedPorts, allowedPorts)
         duration == Duration(params.duration, defaultDuration, maxDuration)
         seen == [knock EXCEPT !.seen = @ \cup {txHash}]
     IN \E failAt \in 0..(IF faults > 0 THEN Len(ports) ELSE 0) :
          /\ faults' = IF failAt = 0 THEN faults ELSE faults - 1
          /\ knock' =
               IF Len(ports) = 0
                 THEN [seen EXCEPT !.request = [params EXCEPT !.done = TRUE,
                                                              !.maxDuration = maxDuration]]
               ELSE IF failAt # 0
                 THEN [seen EXCEPT
                         !.rules = ClosePorts(OpenPorts(@, ports, 1, failAt - 1), ports, 1),
                         !.request = [params EXCEPT !.done = TRUE, !.failAt = failAt,
                                                    !.maxDuration = maxDuration]]
               ELSE startAuthLogMonitor(
                      [seen EXCEPT
                         !.rules = OpenPorts(@, ports, 1, Len(ports)),
                         !.timers = @ \cup {Timer(txHash, "timeout")},
                         !.activeKnocks[txHash] =
                            [open |-> TRUE, ports |-> ports, duration |-> duration,
                             timeoutId |-> "timeout"],
                         !.request = [params EXCEPT !.done = TRUE, !.success = TRUE,
                                                    !.maxDuration = maxDuration]],
                      txHash, ports, params.authLog)
  /\ UNCHANGED << schedVars, fcVars, gcVars, chainVars, paymentMethods, primaryStablecoin,
                  revenueConfig, chainConfig, facts, cli >>

\* the result goes back to the caller; timer and stream callbacks run only
\* after the handler's synchronous code has returned
KnockReturned ==
  /\ knock.request.done
  /\ knock' = [knock EXCEPT !.request = NoRequest]
  /\ UNCHANGED << schedVars, fcVars, gcVars, chainVars, paymentMethods, primaryStablecoin,
                  revenueConfig, chainConfig, facts, faults, cli >>

\* lines 71-73: the timeout set by executeKnock fires
KnockTimeout ==
  /\ ~knock.request.done
  /\ \E txHash \in TxHashes :
       /\ Timer(txHash, "timeout") \in knock.timers
       /\ knock' = closeKnock([knock EXCEPT !.timers = @ \ {Timer(txHash, "timeout")}],
                              txHash)
  /\ UNCHANGED << schedVars, fcVars, gcVars, chainVars, paymentMethods, primaryStablecoin,
                  revenueConfig, chainConfig, facts, faults, cli >>

\* lines 225-228: the timeout set by startAuthLogMonitor fires
WrappedTimeout ==
  /\ ~knock.request.done
  /\ \E txHash \in TxHashes :
       /\ Timer(txHash, "wrapped") \in knock.timers
       /\ knock' = [knock EXCEPT !.timers = @ \ {Timer(txHash, "wrapped")},
                                 !.tails = @ \ {txHash}]
  /\ UNCHANGED << schedVars, fcVars, gcVars, chainVars, paymentMethods, primaryStablecoin,
                  revenueConfig, chainConfig, facts, faults, cli >>

\* lines 192-217: a line with "Accepted" and "ssh2" reaches a tail
SshLogin ==
  /\ ~knock.request.done
  /\ \E txHash \in knock.tails :
       knock' = closeKnock([knock EXCEPT !.tails = @ \ {txHash}], txHash)
  /\ UNCHANGED << schedVars, fcVars, gcVars, chainVars, paymentMethods, primaryStablecoin,
                  revenueConfig, chainConfig, facts, faults, cli >>

---------------------------------------------------------------------------
(* The monitor process: polling loop, fund cycle, gas check *)
HotGen0 == [pending |-> 0, keys |-> 0, rejected |-> 0]

Balances(escrowUsdc, escrowTkn, hotUsdc, serverUsdc) ==
  [a \in Accounts |->
    [t \in Tokens |->
      IF a = Escrow THEN (IF t = "usdc" THEN escrowUsdc ELSE escrowTkn)
      ELSE IF a = AddressOf("hot") /\ t = "usdc" THEN hotUsdc
      ELSE IF a = AddressOf("server") /\ t = "usdc" THEN serverUsdc
      ELSE 0]]

EthBalances(server, hot) ==
  [a \in {AddressOf("server"), AddressOf("hot")} |->
    IF a = AddressOf("server") THEN server ELSE hot]

DiskBooks ==
  { EmptyEntries, FullEntries, Without(FullEntries, "hot"), WithKey(FullEntries, "server", "bad") }

\* the least native balance that is valued at the low-gas threshold
EnoughEth == (GasLowThresholdUsd * 100 + EthPriceCents - 1) \div EthPriceCents

GasScenario(chain, eth, usdc, allow) ==
  [chainConfig |-> chain, eth |-> eth, usdc |-> usdc, allowance |-> allow]

\* the server's native and stablecoin balances around the two thresholds of
\* the gas check on a chain with a pool, and a server due for a swap on the
\* chains without one
GasScenarios ==
  { GasScenario("pool", EnoughEth - 1, SwapAmountUsdc, 0),
    GasScenario("pool", EnoughEth - 1, SwapAmountUsdc, MaxUint256),
    GasScenario("pool", EnoughEth - 1, SwapAmountUsdc - 1, 0),
    GasScenario("pool", EnoughEth, SwapAmountUsdc, 0),
    GasScenario("null", EnoughEth - 1, SwapAmountUsdc, 0),
    GasScenario("zero", EnoughEth - 1, SwapAmountUsdc, 0),
    GasScenario("empty", EnoughEth - 1, SwapAmountUsdc, 0) }

\* BLOCKHOST_CONTRACT set or not, and the addressbook on disk
Installations ==
  { << FALSE, FullEntries >> } \cup { << TRUE, e >> : e \in DiskBooks }

TypeOK ==
  /\ now \in 0..MaxTime
  /\ fundCycleInProgress \in BOOLEAN
  /\ gasCheckInProgress \in BOOLEAN
  /\ faults \in 0..MaxFaults
  /\ \A a \in Accounts : \A t \in Tokens : tokenBal[a][t] >= 0
  /\ \A a \in DOMAIN ethBal : ethBal[a] >= 0

Init ==
  /\ now = 0
  /\ last_fund_cycle = 0
  /\ last_gas_check = 0
  /\ fundCycleInProgress = FALSE
  /\ gasCheckInProgress = FALSE
  /\ fcStat = Stat0
  /\ gcStat = Stat0
  /\ \E i \in Installations : contractEnv = i[1] /\ diskBook = i[2]
  /\ hotGen = HotGen0
  /\ fcPc = "idle"
  /\ book = Book(EmptyEntries)
  /\ fcErr = FALSE
  /\ fcLoc = FcLoc0
  /\ stepsRun = {}
  /\ gcPc = "idle"
  /\ gcLoc = GcLoc0
  /\ \E g \in GasScenarios :
       /\ tokenBal = Balances(MinWithdrawalUsd, 0, 0, g.usdc)
       /\ ethBal = EthBalances(g.eth, 0)
       /\ allowance = g.allowance
       /\ poolQuote = ExpectedEth
       /\ chainConfig = g.chainConfig
  /\ txLog = << >>
  /\ facts = << >>
  /\ faults = MaxFaults
  /\ paymentMethods = << PM("USDC", TRUE, 100), PM("TKN", TRUE, 200) >>
  /\ primaryStablecoin = "USDC"
  /\ revenueConfig = [enabled |-> TRUE, total_percent |-> 10000,
                      recipients |-> << Recipient("dev", 5000), Recipient("broker", 5000) >>]
  /\ knock = Knock0
  /\ cli = Cli0

Next ==
  \/ Tick
  \/ PollFundCycle
  \/ WithdrawCollect
  \/ TopUpHotWalletGas
  \/ TopUpServerStablecoinBuffer
  \/ DistributeRevenueShares
  \/ SendRemainderToAdmin
  \/ FundCycleFinally
  \/ HotWalletGeneration
  \/ PollGasCheck
  \/ CheckAndSwapGas
  \/ GasApproveWait
  \/ GasSwapSubmit
  \/ GasSwapWait
  \/ GasCheckFinally

Spec == Init /\ [][Next]_vars

\* every awaited call of a running fund cycle or gas check returns or throws
FundCycleProgress ==
  \/ WithdrawCollect
  \/ TopUpHotWalletGas
  \/ TopUpServerStablecoinBuffer
  \/ DistributeRevenueShares
  \/ SendRemainderToAdmin
  \/ FundCycleFinally

GasCheckProgress ==
  \/ CheckAndSwapGas
  \/ GasApproveWait
  \/ GasSwapSubmit
  \/ GasSwapWait
  \/ GasCheckFinally

FairSpec == Spec /\ WF_vars(FundCycleProgress) /\ WF_vars(GasCheckProgress)

---------------------------------------------------------------------------
(* The five steps of runFundCycle (index.ts lines 93-115) on every         *)
(* Addressbook value of `book`                                             *)
StepBooks ==
  { Book(FullEntries),
    Book(WithKey(FullEntries, "server", "none")),
    Book(WithKey(FullEntries, "hot", "bad")),
    Book(Without(FullEntries, "admin")),
    Book(Without(FullEntries, "dev")) }

\* escrow balances of usdc (1 USD each) and tkn (2 USD each) around the
\* withdrawal threshold
EscrowScenarios ==
  { << 0, MinWithdrawalUsd \div 2 >>,
    << MinWithdrawalUsd - 1, MinWithdrawalUsd \div 2 - 1 >>,
    << MinWithdrawalUsd, MinWithdrawalUsd \div 2 - 1 >>,
    << MinWithdrawalUsd, MinWithdrawalUsd \div 2 >> }

\* stablecoin held by the hot wallet and by the server around the buffer
\* target, and the contract's primary stablecoin
BufferScenarios ==
  { << 0, ServerStablecoinBufferUsd, "USDC" >>,
    << 0, ServerStablecoinBufferUsd - 10, "USDC" >>,
    << 10, ServerStablecoinBufferUsd - 10, "USDC" >>,
    << 10, ServerStablecoinBufferUsd - 10, ZeroAddress >> }

StepInit ==
  /\ now = FundCycleIntervalMs
  /\ last_fund_cycle = 0
  /\ last_gas_check = 0
  /\ fundCycleInProgress = TRUE
  /\ gasCheckInProgress = FALSE
  /\ fcStat = [Stat0 EXCEPT !.calls = 1, !.runs = 1]
  /\ gcStat = Stat0
  /\ contractEnv = TRUE
  /\ book \in StepBooks
  /\ diskBook = book.e
  /\ hotGen = HotGen0
  /\ fcPc = "withdraw"
  /\ fcErr = FALSE
  /\ fcLoc = FcLoc0
  /\ stepsRun = {}
  /\ gcPc = "idle"
  /\ gcLoc = GcLoc0
  /\ \E e \in EscrowScenarios : \E b \in BufferScenarios :
       /\ tokenBal = Balances(e[1], e[2], b[1], b[2])
       /\ primaryStablecoin = b[3]
  /\ \E e \in { << TopUpAmount * 2 - 1, 0 >>, << TopUpAmount * 2, 0 >>,
                 << TopUpAmount * 2, HotGasThreshold >> } :
       ethBal = EthBalances(e[1], e[2])
  /\ allowance = 0
  /\ poolQuote = ExpectedEth
  /\ txLog = << >>
  /\ facts = << >>
  /\ faults = MaxFaults
  /\ paymentMethods \in PaymentMethodConfigs
  /\ revenueConfig \in RevenueConfigs
  /\ chainConfig = "pool"
  /\ knock = Knock0
  /\ cli = Cli0

StepNext ==
  \/ WithdrawCollect
  \/ WithdrawToken
  \/ WithdrawWait
  \/ TopUpHotWalletGas
  \/ GasTopUpWait
  \/ TopUpServerStablecoinBuffer
  \/ BufferWait
  \/ DistributeRevenueShares
  \/ RevenueShareTransfer
  \/ RevenueShareWait
  \/ SendRemainderToAdmin
  \/ RemainderTransfer
  \/ RemainderWait
  \/ FundCycleFinally

StepSpec == StepInit /\ [][StepNext]_vars

---------------------------------------------------------------------------
(* The distribution steps of runFundCycle (index.ts lines 99-115) after a  *)
(* withdrawal step that found the contract empty and a gas top-up step     *)
(* that found the hot wallet funded                                        *)
DistBooks ==
  { Book(FullEntries),
    Book(Without(FullEntries, "dev")),
    Book(Without(FullEntries, "broker")),
    Book(Without(FullEntries, "admin")) }

DistBalances(hotUsdc, hotTkn, serverUsdc) ==
  [a \in Accounts |->
    [t \in Tokens |->
      IF a = AddressOf("hot") THEN (IF t = "usdc" THEN hotUsdc ELSE hotTkn)
      ELSE IF a = AddressOf("server") /\ t = "usdc" THEN serverUsdc
      ELSE 0]]

\* stablecoin and token held by the hot wallet, stablecoin held by the server
DistScenarios ==
  { << 500, 0, ServerStablecoinBufferUsd + 30 >>,
    << 1000, 0, ServerStablecoinBufferUsd >>,
    << 1010, 7, ServerStablecoinBufferUsd - 10 >>,
    << 10, 3, ServerStablecoinBufferUsd - 10 >>,
    << 9, 0, ServerStablecoinBufferUsd - 10 >>,
    << 10000, 0, ServerStablecoinBufferUsd >> }

\* revenue-share.json: disabled; one recipient; two, three and four
\* recipients whose percents sum to total_percent; two whose percents do not
DistRevenueConfigs ==
  { [enabled |-> FALSE, total_percent |-> 10000,
     recipients |-> << Recipient("dev", 5000), Recipient("broker", 5000) >>],
    [enabled |-> TRUE, total_percent |-> 10000,
     recipients |-> << Recipient("dev", 10000) >>],
    [enabled |-> TRUE, total_percent |-> 10000,
     recipients |-> << Recipient("dev", 5000), Recipient("broker", 5000) >>],
    [enabled |-> TRUE, total_percent |-> 100000,
     recipients |-> << Recipient("dev", 33000), Recipient("broker", 33000),
                       Recipient("admin", 34000) >>],
    [enabled |-> TRUE, total_percent |-> 99000,
     recipients |-> << Recipient("dev", 33000), Recipient("broker", 33000),
                       Recipient("admin", 33000) >>],
    [enabled |-> TRUE, total_percent |-> 20,
     recipients |-> << Recipient("dev", 5), Recipient("broker", 5),
                       Recipient("dev", 5), Recipient("broker", 5) >>],
    [enabled |-> TRUE, total_percent |-> 100000,
     recipients |-> << Recipient("dev", 50000), Recipient("broker", 30000) >>] }

DistInit ==
  /\ now = FundCycleIntervalMs
  /\ last_fund_cycle = 0
  /\ last_gas_check = 0
  /\ fundCycleInProgress = TRUE
  /\ gasCheckInProgress = FALSE
  /\ fcStat = [Stat0 EXCEPT !.calls = 1, !.runs = 1]
  /\ gcStat = Stat0
  /\ contractEnv = TRUE
  /\ book \in DistBooks
  /\ diskBook = book.e
  /\ hotGen = HotGen0
  /\ fcPc = "buffer"
  /\ fcErr = FALSE
  /\ fcLoc = FcLoc0
  /\ stepsRun = {"withdraw", "gasTopUp"}
  /\ gcPc = "idle"
  /\ gcLoc = GcLoc0
  /\ \E d \in DistScenarios : tokenBal = DistBalances(d[1], d[2], d[3])
  /\ ethBal = EthBalances(TopUpAmount * 2, HotGasThreshold)
  /\ allowance = 0
  /\ poolQuote = ExpectedEth
  /\ txLog = << >>
  /\ facts = << Fact("withdraw", "usdc", 0, FALSE), Fact("withdraw", "tkn", 0, FALSE) >>
  /\ faults = MaxFaults
  /\ paymentMethods = << PM("USDC", TRUE, 100), PM("TKN", TRUE, 200) >>
  /\ primaryStablecoin = "USDC"
  /\ revenueConfig \in DistRevenueConfigs
  /\ chainConfig = "pool"
  /\ knock = Knock0
  /\ cli = Cli0

DistNext ==
  \/ TopUpServerStablecoinBuffer
  \/ BufferWait
  \/ DistributeRevenueShares
  \/ RevenueShareTransfer
  \/ RevenueShareWait
  \/ SendRemainderToAdmin
  \/ RemainderTransfer
  \/ RemainderWait
  \/ FundCycleFinally

DistSpec == DistInit /\ [][DistNext]_vars

---------------------------------------------------------------------------
(* Two fund cycles in a row on the same addressbook, the second one due    *)
(* after the first has ended, with no balance changed in between           *)
RetryScenarios ==
  { << ServerStablecoinBufferUsd - 10, TopUpAmount * 2 >>,
    << ServerStablecoinBufferUsd, TopUpAmount * 2 - 1 >> }

RetryInit ==
  /\ now = FundCycleIntervalMs
  /\ last_fund_cycle = 0
  /\ last_gas_check = 0
  /\ fundCycleInProgress = TRUE
  /\ gasCheckInProgress = FALSE
  /\ fcStat = [Stat0 EXCEPT !.calls = 1, !.runs = 1]
  /\ gcStat = Stat0
  /\ contractEnv = TRUE
  /\ book = Book(FullEntries)
  /\ diskBook = book.e
  /\ hotGen = HotGen0
  /\ fcPc = "withdraw"
  /\ fcErr = FALSE
  /\ fcLoc = FcLoc0
  /\ stepsRun = {}
  /\ gcPc = "idle"
  /\ gcLoc = GcLoc0
  /\ \E r \in RetryScenarios :
       /\ tokenBal = Balances(MinWithdrawalUsd * 2, MinWithdrawalUsd \div 2 - 1, 0, r[1])
       /\ ethBal = EthBalances(r[2], 0)
  /\ allowance = 0
  /\ poolQuote = ExpectedEth
  /\ txLog = << >>
  /\ facts = << >>
  /\ faults = MaxFaults
  /\ paymentMethods = << PM("USDC", TRUE, 100), PM("TKN", TRUE, 200) >>
  /\ primaryStablecoin = "USDC"
  /\ revenueConfig \in {c \in RevenueConfigs : c.enabled}
  /\ chainConfig = "pool"
  /\ knock = Knock0
  /\ cli = Cli0

\* the interval elapses and the polling loop calls runFundCycle again:
\* lines 72-91, with the addressbook loaded from the same file
RetryFundCycle ==
  /\ fcPc = "idle"
  /\ fcStat.runs = 1
  /\ ~GuardHeld(fundCycleInProgress)
  /\ now' = now + FundCycleIntervalMs
  /\ fcStat' = [fcStat EXCEPT !.calls = @ + 1, !.runs = @ + 1, !.mark = Len(txLog)]
  /\ fundCycleInProgress' = TRUE
  /\ book' = loadAddressbook
  /\ fcPc' = "withdraw"
  /\ stepsRun' = {}
  /\ UNCHANGED << last_fund_cycle, last_gas_check, gasCheckInProgress, gcStat, contractEnv,
                  diskBook, hotGen, fcErr, fcLoc, gcVars, chainVars, envVars, facts,
                  faults, cli >>

RetryNext ==
  \/ WithdrawCollect
  \/ WithdrawToken
  \/ WithdrawWait
  \/ TopUpHotWalletGas
  \/ GasTopUpWait
  \/ TopUpServerStablecoinBuffer
  \/ BufferWait
  \/ DistributeRevenueShares
  \/ RevenueShareTransfer
  \/ RevenueShareWait
  \/ SendRemainderToAdmin
  \/ RemainderTransfer
  \/ RemainderWait
  \/ FundCycleFinally
  \/ RetryFundCycle

RetrySpec == RetryInit /\ [][RetryNext]_vars

---------------------------------------------------------------------------
(* The withdrawal step of a fund cycle and a bw withdraw process started   *)
(* beside it, on the same contract                                         *)
WithdrawBooks ==
  { Book(FullEntries),
    Book(Without(FullEntries, "broker")),
    Book(WithKey(FullEntries, "server", "none")) }

WithdrawInit ==
  /\ now = FundCycleIntervalMs
  /\ last_fund_cycle = 0
  /\ last_gas_check = 0
  /\ fundCycleInProgress = TRUE
  /\ gasCheckInProgress = FALSE
  /\ fcStat = [Stat0 EXCEPT !.calls = 1, !.runs = 1]
  /\ gcStat = Stat0
  /\ contractEnv = TRUE
  /\ book \in WithdrawBooks
  /\ diskBook = book.e
  /\ hotGen = HotGen0
  /\ fcPc = "withdraw"
  /\ fcErr = FALSE
  /\ fcLoc = FcLoc0
  /\ stepsRun = {}
  /\ gcPc = "idle"
  /\ gcLoc = GcLoc0
  /\ \E eu \in {0, MinWithdrawalUsd} :
     \E et \in {0, MinWithdrawalUsd \div 2} :
       tokenBal = Balances(eu, et, 0, ServerStablecoinBufferUsd)
  /\ ethBal = EthBalances(TopUpAmount * 2, HotGasThreshold)
  /\ allowance = 0
  /\ poolQuote = ExpectedEth
  /\ txLog = << >>
  /\ facts = << >>
  /\ faults = MaxFaults
  /\ paymentMethods \in PaymentMethodConfigs
  /\ primaryStablecoin = "USDC"
  /\ revenueConfig \in {c \in RevenueConfigs : ~c.enabled}
  /\ chainConfig = "pool"
  /\ knock = Knock0
  /\ cli = Cli0

WithdrawNext ==
  \/ WithdrawCollect
  \/ WithdrawToken
  \/ WithdrawWait
  \/ BwWithdraw
  \/ executeWithdrawAll
  \/ executeWithdrawAllToken
  \/ executeWithdraw
  \/ executeWithdrawWait

WithdrawSpec == WithdrawInit /\ [][WithdrawNext]_vars

---------------------------------------------------------------------------
(* A gas check on a server due for a swap and a bw swap process started    *)
(* beside it, on a pool whose quote is any amount up to MaxQuote           *)
MaxQuote == 120

SwapInit ==
  /\ now = GasCheckIntervalMs
  /\ last_fund_cycle = 0
  /\ last_gas_check = 0
  /\ fundCycleInProgress = FALSE
  /\ gasCheckInProgress = TRUE
  /\ fcStat = Stat0
  /\ gcStat = [Stat0 EXCEPT !.calls = 1, !.runs = 1]
  /\ contractEnv = TRUE
  /\ diskBook = FullEntries
  /\ hotGen = HotGen0
  /\ fcPc = "idle"
  /\ book = Book(EmptyEntries)
  /\ fcErr = FALSE
  /\ fcLoc = FcLoc0
  /\ stepsRun = {}
  /\ gcPc = "check"
  /\ gcLoc = [GcLoc0 EXCEPT !.wallet = resolveWallet("server", loadAddressbook)]
  /\ tokenBal = Balances(0, 0, 0, SwapAmountUsdc + 1)
  /\ ethBal = EthBalances(EnoughEth - 1, 0)
  /\ allowance \in {0, MaxUint256}
  /\ poolQuote \in 0..MaxQuote
  /\ txLog = << >>
  /\ facts = << >>
  /\ faults = MaxFaults
  /\ paymentMethods = << PM("USDC", TRUE, 100) >>
  /\ primaryStablecoin = "USDC"
  /\ revenueConfig \in {c \in RevenueConfigs : ~c.enabled}
  /\ chainConfig = "pool"
  /\ knock = Knock0
  /\ cli = Cli0

SwapNext ==
  \/ CheckAndSwapGas
  \/ GasApproveWait
  \/ GasSwapSubmit
  \/ GasSwapWait
  \/ GasCheckFinally
  \/ BwSwap
  \/ executeSwap
  \/ executeSwapApproveWait
  \/ executeSwapSubmit
  \/ executeSwapWait

SwapSpec == SwapInit /\ [][SwapNext]_vars

---------------------------------------------------------------------------
(* Fund cycles one interval after another, from the first poll of an       *)
(* installation with or without hot in its addressbook                     *)

\* the polling loop between two fund cycles: the clock reaches the time at
\* which the next one is due
NextInterval ==
  /\ fcPc = "idle"
  /\ fcStat.ends > 0
  /\ fcStat.calls < MaxCalls
  /\ ~shouldRunFundCycle
  /\ now' = last_fund_cycle + FundCycleIntervalMs
  /\ UNCHANGED << last_fund_cycle, last_gas_check, fundCycleInProgress,
                  gasCheckInProgress, fcStat, gcStat, contractEnv, diskBook, hotGen,
                  fcVars, gcVars, chainVars, envVars, facts, faults, cli >>

HotInit ==
  /\ now = FundCycleIntervalMs
  /\ last_fund_cycle = 0
  /\ last_gas_check = 0
  /\ fundCycleInProgress = FALSE
  /\ gasCheckInProgress = FALSE
  /\ fcStat = Stat0
  /\ gcStat = Stat0
  /\ contractEnv = TRUE
  /\ diskBook \in {FullEntries, Without(FullEntries, "hot")}
  /\ hotGen = HotGen0
  /\ fcPc = "idle"
  /\ book = Book(EmptyEntries)
  /\ fcErr = FALSE
  /\ fcLoc = FcLoc0
  /\ stepsRun = {}
  /\ gcPc = "idle"
  /\ gcLoc = GcLoc0
  /\ \E eu \in {0, MinWithdrawalUsd} :
       tokenBal = Balances(eu, 0, 0, ServerStablecoinBufferUsd)
  /\ ethBal = EthBalances(TopUpAmount * 2, 0)
  /\ allowance = 0
  /\ poolQuote = ExpectedEth
  /\ txLog = << >>
  /\ facts = << >>
  /\ faults = MaxFaults
  /\ paymentMethods = << PM("USDC", TRUE, 100), PM("TKN", TRUE, 200) >>
  /\ primaryStablecoin = "USDC"
  /\ revenueConfig \in RevenueConfigs
  /\ chainConfig = "pool"
  /\ knock = Knock0
  /\ cli = Cli0

HotNext ==
  \/ PollFundCycle
  \/ WithdrawCollect
  \/ TopUpHotWalletGas
  \/ TopUpServerStablecoinBuffer
  \/ DistributeRevenueShares
  \/ SendRemainderToAdmin
  \/ FundCycleFinally
  \/ HotWalletGeneration
  \/ NextInterval

HotSpec == HotInit /\ [][HotNext]_vars

---------------------------------------------------------------------------
(* bw --debug --cleanup on an addressbook whose roles each have a key of   *)
(* their own, and on one where a second role shares the server's           *)
CleanupInit ==
  /\ now = 0
  /\ last_fund_cycle = 0
  /\ last_gas_check = 0
  /\ fundCycleInProgress = FALSE
  /\ gasCheckInProgress = FALSE
  /\ fcStat = Stat0
  /\ gcStat = Stat0
  /\ contractEnv = TRUE
  /\ \E own \in {NoEntry, [address |-> "0xa1", keyfile |-> "none"],
                  [address |-> AddressOf("server"), keyfile |-> "ok"]} :
       diskBook = AbEntries(FullEntries, own)
  /\ hotGen = HotGen0
  /\ fcPc = "idle"
  /\ book = Book(EmptyEntries)
  /\ fcErr = FALSE
  /\ fcLoc = FcLoc0
  /\ stepsRun = {}
  /\ gcPc = "idle"
  /\ gcLoc = GcLoc0
  /\ tokenBal = Balances(0, 0, 0, 0)
  /\ \E server \in {0, GasCostWithMargin(MaxGasCost), 3 * MaxGasCost} :
     \E hot \in {GasCostWithMargin(MaxGasCost) + 1, MaxGasCost \div 2} :
       ethBal = [a \in {AddressOf("server"), AddressOf("hot"), AddressOf("admin")} |->
                  IF a = AddressOf("server") THEN server
                  ELSE IF a = AddressOf("hot") THEN hot ELSE 0]
  /\ allowance = 0
  /\ poolQuote = ExpectedEth
  /\ txLog = << >>
  /\ facts = << >>
  /\ faults = MaxFaults
  /\ paymentMethods = << PM("USDC", TRUE, 100) >>
  /\ primaryStablecoin = "USDC"
  /\ revenueConfig \in {c \in RevenueConfigs : ~c.enabled}
  /\ chainConfig = "pool"
  /\ knock = Knock0
  /\ cli = Cli0

CleanupNext ==
  \/ BwCleanup
  \/ cleanupCommand
  \/ SweepBalance
  \/ SweepSend
  \/ SweepWait
  \/ cleanupSummary

CleanupSpec == CleanupInit /\ [][CleanupNext]_vars

---------------------------------------------------------------------------
(* bw split from a hot wallet that holds the largest total, or less *)
SplitInit ==
  /\ now = 0
  /\ last_fund_cycle = 0
  /\ last_gas_check = 0
  /\ fundCycleInProgress = FALSE
  /\ gasCheckInProgress = FALSE
  /\ fcStat = Stat0
  /\ gcStat = Stat0
  /\ contractEnv = TRUE
  /\ diskBook = AbEntries(FullEntries, NoEntry)
  /\ hotGen = HotGen0
  /\ fcPc = "idle"
  /\ book = Book(EmptyEntries)
  /\ fcErr = FALSE
  /\ fcLoc = FcLoc0
  /\ stepsRun = {}
  /\ gcPc = "idle"
  /\ gcLoc = GcLoc0
  /\ \E held \in {MaxSplit, MaxSplit \div 2} :
       /\ tokenBal = Balances(0, 0, held, 0)
       /\ ethBal = [a \in Accounts |-> IF a = AddressOf("hot") THEN held ELSE 0]
  /\ allowance = 0
  /\ poolQuote = ExpectedEth
  /\ txLog = << >>
  /\ facts = << >>
  /\ faults = MaxFaults
  /\ paymentMethods = << PM("USDC", TRUE, 100) >>
  /\ primaryStablecoin = "USDC"
  /\ revenueConfig \in {c \in RevenueConfigs : ~c.enabled}
  /\ chainConfig = "pool"
  /\ knock = Knock0
  /\ cli = Cli0

SplitNext ==
  \/ BwSplit
  \/ splitCommand
  \/ splitShare
  \/ splitWait

SplitSpec == SplitInit /\ [][SplitNext]_vars

---------------------------------------------------------------------------
(* A fund cycle from index.ts line 93 on, on an Addressbook value, with the *)
(* gas check due beside it: the escrow contract holds the withdrawal        *)
(* threshold, the server's native balance is around the gas threshold       *)
PairInit ==
  /\ now = FundCycleIntervalMs
  /\ last_fund_cycle = 0
  /\ last_gas_check = 0
  /\ fundCycleInProgress = TRUE
  /\ gasCheckInProgress = FALSE
  /\ fcStat = [Stat0 EXCEPT !.calls = 1, !.runs = 1]
  /\ gcStat = Stat0
  /\ contractEnv = TRUE
  /\ book = Book(FullEntries)
  /\ diskBook = book.e
  /\ hotGen = HotGen0
  /\ fcPc = "withdraw"
  /\ fcErr = FALSE
  /\ fcLoc = FcLoc0
  /\ stepsRun = {}
  /\ gcPc = "idle"
  /\ gcLoc = GcLoc0
  /\ \E serverUsdc \in {ServerStablecoinBufferUsd - 10, ServerStablecoinBufferUsd} :
       tokenBal = Balances(MinWithdrawalUsd, 0, 0, serverUsdc)
  /\ \E server \in {TopUpAmount * 2, TopUpAmount * 2 + HotGasThreshold} :
       ethBal = EthBalances(server, 0)
  /\ allowance \in {0, MaxUint256}
  /\ poolQuote = ExpectedEth
  /\ txLog = << >>
  /\ facts = << >>
  /\ faults = MaxFaults
  /\ paymentMethods = << PM("USDC", TRUE, 100) >>
  /\ primaryStablecoin = "USDC"
  /\ revenueConfig \in {c \in RevenueConfigs : c.enabled}
  /\ chainConfig = "pool"
  /\ knock = Knock0
  /\ cli = Cli0

PairNext ==
  \/ StepNext
  \/ PollGasCheck
  \/ CheckAndSwapGas
  \/ GasApproveWait
  \/ GasSwapSubmit
  \/ GasSwapWait
  \/ GasCheckFinally

PairSpec == PairInit /\ [][PairNext]_vars

---------------------------------------------------------------------------
(* Knock commands handled one after another, their timers and tails *)
KnockInit ==
  /\ now = 0
  /\ last_fund_cycle = 0
  /\ last_gas_check = 0
  /\ fundCycleInProgress = FALSE
  /\ gasCheckInProgress = FALSE
  /\ fcStat = Stat0
  /\ gcStat = Stat0
  /\ contractEnv = TRUE
  /\ diskBook = FullEntries
  /\ hotGen = HotGen0
  /\ fcPc = "idle"
  /\ book = Book(EmptyEntries)
  /\ fcErr = FALSE
  /\ fcLoc = FcLoc0
  /\ stepsRun = {}
  /\ gcPc = "idle"
  /\ gcLoc = GcLoc0
  /\ tokenBal = Balances(0, 0, 0, 0)
  /\ ethBal = EthBalances(0, 0)
  /\ allowance = 0
  /\ poolQuote = ExpectedEth
  /\ txLog = << >>
  /\ facts = << >>
  /\ faults = MaxFaults
  /\ paymentMethods = << PM("USDC", TRUE, 100) >>
  /\ primaryStablecoin = "USDC"
  /\ revenueConfig \in {c \in RevenueConfigs : ~c.enabled}
  /\ chainConfig = "pool"
  /\ knock = Knock0
  /\ cli = Cli0

KnockNext ==
  \/ KnockCommand
  \/ executeKnock
  \/ KnockReturned
  \/ KnockTimeout
  \/ WrappedTimeout
  \/ SshLogin

KnockSpec == KnockInit /\ [][KnockNext]_vars

\* the handler returns and timers that are set do fire; a login may never
\* come
KnockFairSpec ==
  /\ KnockSpec
  /\ WF_vars(KnockReturned)
  /\ WF_vars(KnockTimeout)
  /\ WF_vars(WrappedTimeout)

---------------------------------------------------------------------------
(* ab commands given one after another on an addressbook with and without  *)
(* hot, with and without an entry of the operator's                        *)
AbInit ==
  /\ now = 0
  /\ last_fund_cycle = 0
  /\ last_gas_check = 0
  /\ fundCycleInProgress = FALSE
  /\ gasCheckInProgress = FALSE
  /\ fcStat = Stat0
  /\ gcStat = Stat0
  /\ contractEnv = TRUE
  /\ \E e \in {FullEntries, Without(FullEntries, "hot")} :
     \E own \in {NoEntry, [address |-> "0xa1", keyfile |-> "none"]} :
       diskBook = AbEntries(e, own)
  /\ hotGen = HotGen0
  /\ fcPc = "idle"
  /\ book = Book(EmptyEntries)
  /\ fcErr = FALSE
  /\ fcLoc = FcLoc0
  /\ stepsRun = {}
  /\ gcPc = "idle"
  /\ gcLoc = GcLoc0
  /\ tokenBal = Balances(0, 0, 0, 0)
  /\ ethBal = EthBalances(0, 0)
  /\ allowance = 0
  /\ poolQuote = ExpectedEth
  /\ txLog = << >>
  /\ facts = << >>
  /\ faults = MaxFaults
  /\ paymentMethods = << PM("USDC", TRUE, 100) >>
  /\ primaryStablecoin = "USDC"
  /\ revenueConfig \in {c \in RevenueConfigs : ~c.enabled}
  /\ chainConfig = "pool"
  /\ knock = Knock0
  /\ cli = Cli0

AbNext ==
  \/ AbMain
  \/ addCommand
  \/ upCommand
  \/ delCommand
  \/ newCommand
  \/ AbEnd

AbSpec == AbInit /\ [][AbNext]_vars

---------------------------------------------------------------------------
(* The monitor process stopped and started again at any moment, after a    *)
(* fund cycle and a gas check that completed at time 0                     *)

\* a new process: module-level guards as initialised (index.ts lines 24-25),
\* nothing running; the state file, the addressbook and the chain are as
\* the old process left them
Restart ==
  /\ fundCycleInProgress \/ gasCheckInProgress \/ hotGen.pending > 0
  /\ fundCycleInProgress' = FALSE
  /\ gasCheckInProgress' = FALSE
  /\ fcPc' = "idle"
  /\ book' = Book(EmptyEntries)
  /\ fcErr' = FALSE
  /\ fcLoc' = FcLoc0
  /\ stepsRun' = {}
  /\ gcPc' = "idle"
  /\ gcLoc' = GcLoc0
  /\ hotGen' = [hotGen EXCEPT !.pending = 0]
  /\ UNCHANGED << now, last_fund_cycle, last_gas_check, fcStat, gcStat, contractEnv,
                  diskBook, chainVars, envVars, facts, faults, cli >>

RestartInit ==
  /\ now = 0
  /\ last_fund_cycle = 0
  /\ last_gas_check = 0
  /\ fundCycleInProgress = FALSE
  /\ gasCheckInProgress = FALSE
  /\ fcStat = [Stat0 EXCEPT !.calls = 1, !.runs = 1, !.ends = 1, !.lastEnd = "complete"]
  /\ gcStat = [Stat0 EXCEPT !.calls = 1, !.runs = 1, !.ends = 1, !.lastEnd = "complete"]
  /\ contractEnv = TRUE
  /\ diskBook \in {FullEntries, Without(FullEntries, "hot")}
  /\ hotGen = HotGen0
  /\ fcPc = "idle"
  /\ book = Book(EmptyEntries)
  /\ fcErr = FALSE
  /\ fcLoc = FcLoc0
  /\ stepsRun = {}
  /\ gcPc = "idle"
  /\ gcLoc = GcLoc0
  /\ tokenBal = Balances(MinWithdrawalUsd, 0, 0, SwapAmountUsdc)
  /\ ethBal = EthBalances(EnoughEth - 1, 0)
  /\ allowance = 0
  /\ poolQuote = ExpectedEth
  /\ txLog = << >>
  /\ facts = << >>
  /\ faults = MaxFaults
  /\ paymentMethods = << PM("USDC", TRUE, 100), PM("TKN", TRUE, 200) >>
  /\ primaryStablecoin = "USDC"
  /\ revenueConfig \in {c \in RevenueConfigs : c.enabled}
  /\ chainConfig = "pool"
  /\ knock = Knock0
  /\ cli = Cli0

RestartNext ==
  \/ Next
  \/ Restart

RestartSpec == RestartInit /\ [][RestartNext]_vars

---------------------------------------------------------------------------
(* Properties of the scheduler (Spec, FairSpec) *)

\* a runFundCycle call made while the guard is held does nothing
SkippedCallDoesNothing ==
  (fundCycleInProgress /\ fcStat'.calls > fcStat.calls) =>
    /\ fcStat' = [fcStat EXCEPT !.calls = @ + 1, !.skips = @ + 1]
    /\ UNCHANGED << fcVars, chainVars, facts, last_fund_cycle, fundCycleInProgress >>

\* C1: single-flight fund cycle. At most one execution of the step sequence
\* is in progress at any time (runs started minus runs ended is 0 or 1, and
\* is 1 exactly while the guard is held); every call is either a run or a
\* skip; a call made while a run is in progress is a skip that executes no
\* step and changes nothing, although shouldRunFundCycle is still true.
C1_FundCycleSingleFlight ==
  /\ [](/\ fcStat.runs - fcStat.ends \in {0, 1}
        /\ fundCycleInProgress <=> (fcStat.runs - fcStat.ends = 1)
        /\ fundCycleInProgress <=> (fcPc # "idle")
        /\ fcStat.calls = fcStat.runs + fcStat.skips
        /\ fundCycleInProgress => shouldRunFundCycle)
  /\ [][SkippedCallDoesNothing]_vars

\* two triggers during one run: the second was skipped, one execution runs
C1_Witness ==
  /\ fundCycleInProgress
  /\ fcStat.calls = 2
  /\ fcStat.runs = 1
  /\ fcStat.skips = 1
  /\ fcStat.ends = 0

\* the guard is held exactly between acquisition and the finally block
GuardsMatchRuns ==
  /\ fundCycleInProgress <=> (fcStat.runs > fcStat.ends)
  /\ gasCheckInProgress <=> (gcStat.runs > gcStat.ends)

\* a run that ends persists its completion time and clears its guard
FundCycleEndPersists ==
  (fcStat'.ends > fcStat.ends) =>
    /\ last_fund_cycle' = now'
    /\ ~fundCycleInProgress'
    /\ fcStat'.lastEnd \in {"complete", "threw", "nocontract", "emptybook"}

GasCheckEndPersists ==
  (gcStat'.ends > gcStat.ends) =>
    /\ last_gas_check' = now'
    /\ ~gasCheckInProgress'
    /\ gcStat'.lastEnd \in {"complete", "threw", "emptybook"}

\* C2: every runFundCycle / runGasCheck invocation that acquired the guard
\* ends with its last-run time persisted as the completion time and its guard
\* cleared, whether all steps succeeded, a step threw, BLOCKHOST_CONTRACT was
\* unset or the addressbook was empty; the guard is held only while a run is
\* in progress, and a run in progress eventually ends when every awaited call
\* returns or throws.
C2_FinallyPersistsAndClears ==
  /\ []GuardsMatchRuns
  /\ [][FundCycleEndPersists /\ GasCheckEndPersists]_vars
  /\ (fundCycleInProgress ~> ~fundCycleInProgress)
  /\ (gasCheckInProgress ~> ~gasCheckInProgress)

\* a fund cycle in which a step threw and a gas check that threw have both
\* ended, the time persisted and the guards cleared
C2_Witness ==
  /\ fcStat.lastEnd = "threw"
  /\ gcStat.lastEnd = "threw"
  /\ ~fundCycleInProgress
  /\ ~gasCheckInProgress
  /\ last_fund_cycle = now
  /\ now > 0

FundSideUnchanged == UNCHANGED << last_fund_cycle, fundCycleInProgress, fcStat >>

GasSideUnchanged == UNCHANGED << last_gas_check, gasCheckInProgress, gcStat >>

\* a call is skipped only on its own guard, and a step of one kind of run
\* leaves the other kind's timestamp, guard and history alone
CyclesIndependent ==
  /\ fcStat'.calls > fcStat.calls =>
       /\ fcStat'.skips > fcStat.skips <=> fundCycleInProgress
       /\ GasSideUnchanged
  /\ gcStat'.calls > gcStat.calls =>
       /\ gcStat'.skips > gcStat.skips <=> gasCheckInProgress
       /\ FundSideUnchanged
  /\ ~FundSideUnchanged => GasSideUnchanged
  /\ last_fund_cycle' # last_fund_cycle => fcStat'.ends > fcStat.ends
  /\ last_gas_check' # last_gas_check => gcStat'.ends > gcStat.ends

\* C23: the two cycle types are independent. A fund cycle in progress never
\* causes runGasCheck to be skipped and a gas check in progress never causes
\* runFundCycle to be skipped; runFundCycle changes only last_fund_cycle and
\* its own guard, runGasCheck only last_gas_check and its own guard, under
\* every interleaving of the two.
C23_CyclesIndependent == [][CyclesIndependent]_vars

\* both kinds of run in progress at once, neither call having been skipped,
\* after a gas check that ended during the fund cycle
C23_Witness ==
  /\ fundCycleInProgress
  /\ gasCheckInProgress
  /\ fcStat.skips = 0
  /\ gcStat.skips = 0
  /\ gcStat.ends = 1
  /\ fcStat.ends = 0
  /\ last_gas_check > last_fund_cycle

---------------------------------------------------------------------------
(* Properties of the fund cycle's steps (StepSpec) *)

\* the step a position of the fund cycle belongs to (6: after the steps)
StepOfPc(pc) ==
  CASE pc \in {"withdraw", "withdrawLoop", "withdrawWait"} -> 1
    [] pc \in {"gasTopUp", "gasTopUpWait"} -> 2
    [] pc \in {"buffer", "bufferWait"} -> 3
    [] pc \in {"revenue", "revenueLoop", "revenueWait"} -> 4
    [] pc \in {"remainder", "remainderLoop", "remainderWait"} -> 5
    [] OTHER -> 6

TxOf(step) == {i \in 1..Len(txLog) : txLog[i].step = step}

\* C4: the steps run in the order withdrawal, gas top-up, buffer top-up,
\* revenue shares, remainder; transactions are submitted in that order, a
\* transaction is submitted only when every earlier one has been confirmed
\* or has failed (only the last submitted one can be pending), no
\* transaction belongs to a step after the current one, and a step is called
\* only after every step before it.
C4_StepsInOrder ==
  /\ \A i, j \in 1..Len(txLog) :
       i < j => StepNumber(txLog[i].step) <= StepNumber(txLog[j].step)
  /\ \A i \in 1..Len(txLog) :
       /\ txLog[i].status = "pending" => i = Len(txLog)
       /\ StepNumber(txLog[i].step) <= StepOfPc(fcPc)
       /\ txLog[i].step \in stepsRun \cup {s \in StepFunctions : StepOfPc(fcPc) = StepNumber(s)}
  /\ \A s \in stepsRun : \A e \in StepFunctions :
       StepNumber(e) < StepNumber(s) => e \in stepsRun

\* a cycle has ended in which each of the five steps had a transaction confirmed
C4_Witness ==
  /\ fcPc = "idle"
  /\ \A s \in StepFunctions : \E i \in TxOf(s) : txLog[i].status = "confirmed"

\* the recorded price of the first active payment method of a token
PriceOf(token) ==
  LET k == CHOOSE k \in 1..Len(paymentMethods) :
             /\ paymentMethods[k].active
             /\ toLowerCase(paymentMethods[k].tokenAddress) = token
  IN paymentMethods[k].price

\* the USD value (in cents) the step gives a balance it has read: by the
\* recorded price, or 1:1 when the price query failed
ValueOf(fact) ==
  fact.balance * (IF fact.priceFailed THEN StablecoinOneToOneCents ELSE PriceOf(fact.token))

WithdrawFacts == {k \in 1..Len(facts) : facts[k].step = "withdraw"}

WithdrawMovesAll ==
  \A i \in TxOf("withdraw") :
    (txLog[i].status = "pending" /\ txLog'[i].status = "confirmed") =>
      LET t == txLog[i].token IN
      /\ tokenBal'[Escrow][t] = 0
      /\ tokenBal'[txLog[i].to][t] = tokenBal[txLog[i].to][t] + tokenBal[Escrow][t]
      /\ tokenBal[Escrow][t] = txLog[i].amount

\* C6: every withdrawFunds call of the fund cycle is signed by the server
\* wallet, names the addressbook's hot address as destination and no other
\* address, and moves the asset's full escrow balance: the balance read,
\* all of it, is in the hot wallet after confirmation and the contract holds
\* none.
C6_WithdrawToHotInFull ==
  /\ [](\A i \in TxOf("withdraw") :
          /\ txLog[i].kind = "withdrawFunds"
          /\ txLog[i].to = BookGet(book, "hot").address
          /\ txLog[i].to = AddressOf("hot")
          /\ txLog[i].signer = AddressOf("server")
          /\ txLog[i].amount > 0
          /\ txLog[i].status = "pending" => tokenBal[Escrow][txLog[i].token] = txLog[i].amount
          /\ txLog[i].status = "confirmed" => tokenBal[Escrow][txLog[i].token] = 0)
  /\ [][WithdrawMovesAll]_vars

\* a withdrawal has been confirmed and its amount is in the hot wallet
C6_Witness ==
  /\ fcPc = "gasTopUp"
  /\ \E i \in TxOf("withdraw") :
       /\ txLog[i].status = "confirmed"
       /\ tokenBal[AddressOf("hot")][txLog[i].token] >= txLog[i].amount
       /\ tokenBal[Escrow][txLog[i].token] = 0

---------------------------------------------------------------------------
(* Properties of the withdrawal operations (WithdrawSpec) *)

\* the transaction log entries an operation's reads belong to
OpOf(factStep) == IF factStep = "withdraw" THEN "withdraw" ELSE "cli"

\* C7: an operation that reads a zero escrow balance for an asset submits
\* no transaction for that asset, in the scheduled withdrawal step, in
\* executeWithdraw and in executeWithdrawAll; no withdrawFunds is ever
\* submitted for a zero balance; and an executeWithdraw call that read a
\* zero balance returned null.
C7_ZeroBalanceNoWrite ==
  /\ \A k \in 1..Len(facts) :
       facts[k].balance = 0 =>
         \A i \in TxOf(OpOf(facts[k].step)) : txLog[i].token # facts[k].token
  /\ \A i \in 1..Len(txLog) : txLog[i].amount > 0
  /\ cli.execBalance = 0 => cli.execResult = "null"
  /\ cli.execResult = "hash" => cli.execBalance > 0

\* the step has skipped an empty asset and executeWithdraw has returned null
\* for an empty asset, with nothing submitted for either
C7_Witness ==
  /\ \E k \in WithdrawFacts : facts[k].balance = 0
  /\ cli.op = "one"
  /\ cli.pc = "done"
  /\ cli.execBalance = 0
  /\ cli.result = "null"
  /\ txLog = << >>

ActiveTokens ==
  {toLowerCase(paymentMethods[k].tokenAddress) :
     k \in {n \in 1..Len(paymentMethods) : paymentMethods[n].active}}

\* the withdrawFunds calls of executeWithdrawAll
TxOfWithdrawAll == IF cli.op = "all" THEN TxOf("cli") ELSE {}

\* C26: in one withdrawal step, and in one executeWithdrawAll, at most one
\* withdrawFunds call is made per underlying token address, compared
\* without regard to case, however many active payment methods name that
\* token; and a token named only by inactive payment methods is never
\* withdrawn.
C26_WithdrawalDeduplicated ==
  \A op \in {TxOf("withdraw"), TxOfWithdrawAll} :
    /\ \A i, j \in op :
         toLowerCase(txLog[i].token) = toLowerCase(txLog[j].token) => i = j
    /\ \A i \in op : toLowerCase(txLog[i].token) \in ActiveTokens

\* USDC is registered twice, in two spellings, beside TKN: executeWithdrawAll
\* has made one call for each token, and the withdrawal step, whose call for
\* USDC was rejected, has gone on to TKN
C26_Witness ==
  /\ Len(paymentMethods) = 3
  /\ cli.op = "all"
  /\ cli.pc = "done"
  /\ \E i, j \in TxOfWithdrawAll :
       /\ txLog[i].token = "usdc"
       /\ txLog[j].token = "tkn"
  /\ \E i, j \in TxOf("withdraw") :
       /\ txLog[i].token = "usdc"
       /\ txLog[i].status \in {"rejected", "failed"}
       /\ txLog[j].token = "tkn"

---------------------------------------------------------------------------
(* Properties of the fund cycle's steps, continued (StepSpec) *)

\* the loop of the withdrawal step was entered and has been left
WithdrawLoopDone ==
  /\ "withdraw" \in stepsRun
  /\ fcPc \notin {"withdrawLoop", "withdrawWait"}
  /\ resolveWallet("server", book) \notin {"null", "throw"}
  /\ BookGet(book, "hot") # NoEntry
  /\ \A k \in 1..Len(facts) : facts[k].step # "withdrawIds"

\* C8: in the withdrawal step a failure on one asset (balance read, price
\* query, rejected or reverted withdrawFunds) does not keep the other assets
\* from being processed: once the loop is left, every active token whose
\* payment method could be read has been evaluated, and each one evaluated
\* with a non-zero balance valued at or above the threshold had its
\* withdrawFunds submitted.
C8_TokenFailuresIndependent ==
  WithdrawLoopDone =>
    \A t \in ActiveTokens :
      \/ \E k \in 1..Len(facts) : facts[k].step = "withdrawPm" /\ facts[k].token = t
      \/ \E k \in WithdrawFacts :
           /\ facts[k].token = t
           /\ \/ facts[k].balance <= 0
              \/ ValueOf(facts[k]) < MinWithdrawalUsd * 100
              \/ \E i \in TxOf("withdraw") : txLog[i].token = t

\* the first asset's withdrawal failed and a later asset was withdrawn
C8_Witness ==
  \E i, j \in TxOf("withdraw") :
    /\ i < j
    /\ txLog[i].status \in {"failed", "rejected"}
    /\ txLog[j].status = "confirmed"

LaterSteps(step) == {s \in StepFunctions : StepNumber(s) > StepNumber(step)}

C9_RevenueFailureNonFatal ==
  \A i \in TxOf("revenue") :
    (fcPc = "idle" /\ txLog[i].status \in {"failed", "rejected"})
      => "remainder" \in stepsRun

\* the native balances a gas top-up was submitted on
TopUpSubmittedOn(hotBalance, serverBalance) ==
  /\ hotBalance < HotGasThreshold
  /\ serverBalance >= TopUpAmount * 2

---------------------------------------------------------------------------
(* Properties of the gas monitor (Spec) *)

GasTxs == {i \in 1..Len(txLog) : txLog[i].step = "gasCheck"}

\* the gas check's own calls met no RPC failure and the server's key loads
GasCheckUndisturbed ==
  /\ faults = MaxFaults
  /\ resolveWallet("server", loadAddressbook) # "throw"

\* C18: on a chain whose usdc_weth_pair is the zero address or empty the
\* gas check submits no approve and no swap and raises no error.
C18_NoPairIsNoOp ==
  chainConfig \in {"zero", "empty"} =>
    /\ GasTxs = {}
    /\ GasCheckUndisturbed => gcStat.threw = 0

\* on a chain whose pair is the zero address, and on a chain without a
\* configuration, the gas check submits nothing and raises no error
C18_ZeroPairIsNoOp ==
  chainConfig \in {"zero", "null"} =>
    /\ GasTxs = {}
    /\ GasCheckUndisturbed => gcStat.threw = 0

SwapTxs == {i \in GasTxs : txLog[i].kind = "swap"}

\* the balances a swap may be submitted on
SwapDue(ethBalance, usdcBalance) ==
  /\ ethBalance * EthPriceCents < GasLowThresholdUsd * 100
  /\ usdcBalance >= GasSwapAmountUsd

\* a swap is submitted from the quote position, on balances that make it due
SwapSubmitGuarded ==
  (Len(txLog') > Len(txLog) /\ txLog'[Len(txLog')].kind = "swap") =>
    /\ gcPc = "quote"
    /\ gcPc' \in {"swapWait", "finally"}
    /\ SwapDue(ethBal[AddressOf("server")], tokenBal[AddressOf("server")]["usdc"])

\* C19: the gas check submits a swap only if the server's native balance is
\* valued strictly below gas_low_threshold_usd and its stablecoin balance is
\* at least the swap amount; every swap is for exactly gas_swap_amount_usd,
\* signed by the server and paid to it; and an invocation submits at most
\* one swap, a failed one not being retried within it.
C19_SwapOnlyWhenDue ==
  /\ [](/\ \A i \in SwapTxs :
             /\ txLog[i].amount = GasSwapAmountUsd
             /\ txLog[i].signer = AddressOf("server")
             /\ txLog[i].to = AddressOf("server")
             /\ txLog[i].status = "pending" =>
                  /\ i = Len(txLog)
                  /\ gcPc = "swapWait"
                  /\ SwapDue(ethBal[AddressOf("server")], tokenBal[AddressOf("server")]["usdc"])
        /\ Cardinality(SwapTxs) <= gcStat.runs
        /\ gcPc \in {"check", "approveWait", "quote"} => Cardinality(SwapTxs) < gcStat.runs)
  /\ [][SwapSubmitGuarded]_vars

\* two gas checks have ended: the swap of the first failed and was not
\* retried in it, the second submitted its own swap, which was confirmed
C19_Witness ==
  /\ gcPc = "idle"
  /\ gcStat.ends = 2
  /\ \E i, j \in SwapTxs :
       /\ i < j
       /\ txLog[i].status = "failed"
       /\ txLog[j].status = "confirmed"
  /\ Cardinality(SwapTxs) = 2

---------------------------------------------------------------------------
(* Properties of the distribution steps (DistSpec) *)

StableToken == toLowerCase(primaryStablecoin)

\* the buffer step submits its transfer on a server balance below the
\* target and a hot balance that covers the shortfall, for the shortfall
BufferSubmitGuarded ==
  (Len(txLog') > Len(txLog) /\ txLog'[Len(txLog')].step = "buffer") =>
    LET tx == txLog'[Len(txLog')]
        serverBal == tokenBal[AddressOf("server")][StableToken]
        hotBal == tokenBal[AddressOf("hot")][StableToken]
    IN /\ serverBal < BufferTarget
       /\ hotBal >= BufferTarget - serverBal
       /\ tx.amount = BufferTarget - serverBal
       /\ tx.amount <= hotBal

\* C11: the buffer top-up transfers stablecoin from the hot wallet to the
\* server only when the server holds less than the buffer target and the
\* hot wallet holds at least the shortfall, and then exactly the shortfall:
\* at most one transfer per cycle, of a positive amount, never more than the
\* hot wallet holds, bringing the server exactly to the target; a server
\* already above the target (hot 500, target 50, server 80) receives nothing.
C11_BufferTopUpExact ==
  /\ [](/\ Cardinality(TxOf("buffer")) <= 1
        /\ tokenBal[AddressOf("server")][StableToken] > BufferTarget => TxOf("buffer") = {}
        /\ \A i \in TxOf("buffer") :
             /\ txLog[i].kind = "transfer"
             /\ txLog[i].token = StableToken
             /\ txLog[i].signer = AddressOf("hot")
             /\ txLog[i].to = AddressOf("server")
             /\ txLog[i].amount > 0
             /\ txLog[i].status = "confirmed" =>
                  tokenBal[AddressOf("server")][StableToken] = BufferTarget
             /\ txLog[i].status # "confirmed" =>
                  /\ tokenBal[AddressOf("server")][StableToken] < BufferTarget
                  /\ txLog[i].amount = BufferTarget - tokenBal[AddressOf("server")][StableToken]
                  /\ txLog[i].amount <= tokenBal[AddressOf("hot")][StableToken])
  /\ [][BufferSubmitGuarded]_vars

\* a confirmed top-up of the hot wallet's whole stablecoin balance, which
\* was exactly the shortfall
C11_Witness ==
  /\ fcPc = "revenue"
  /\ \E i \in TxOf("buffer") :
       /\ txLog[i].status = "confirmed"
       /\ txLog[i].amount = 10
  /\ tokenBal[AddressOf("hot")][StableToken] = 0
  /\ tokenBal[AddressOf("server")][StableToken] = BufferTarget

\* the transaction attempts of the revenue-share step for a token, in order
RevenueTxs(token) ==
  SelectSeq(txLog, LAMBDA x : x.step = "revenue" /\ x.token = token)

RevenueFacts == {k \in 1..Len(facts) : facts[k].step = "revenue"}

RECURSIVE SumAmounts(_)
SumAmounts(txs) == IF txs = << >> THEN 0 ELSE Head(txs).amount + SumAmounts(Tail(txs))

RECURSIVE SumPercents(_)
SumPercents(rs) == IF rs = << >> THEN 0 ELSE Head(rs).percent + SumPercents(Tail(rs))

\* totalShare = balance * round(total_percent * 100) / 10000, integer division
TotalShareOf(balance) == (balance * ((revenueConfig.total_percent + 5) \div 10)) \div 10000

AllRecipientsResolve ==
  \A i \in 1..Len(revenueConfig.recipients) :
    BookGet(book, revenueConfig.recipients[i].role) # NoEntry

\* the revenue-share step has returned and every transfer it made was confirmed
RevenueStepSucceeded ==
  /\ fcPc \in {"remainder", "remainderLoop", "remainderWait"}
  /\ RevenueFacts # {}
  /\ AllRecipientsResolve
  /\ faults = MaxFaults

RoundedPercentsAddUp ==
  LET rs == revenueConfig.recipients
      rounded == [i \in 1..Len(rs) |-> [percent |-> (rs[i].percent + 5) \div 10]]
  IN SumPercents(rounded) = (revenueConfig.total_percent + 5) \div 10

C12_ExactWhenRoundedPercentsAddUp ==
  (RevenueStepSucceeded /\ RoundedPercentsAddUp) =>
    \A k \in RevenueFacts :
      SumAmounts(RevenueTxs(facts[k].token)) = TotalShareOf(facts[k].balance)

\* round(percent * 100) of a percent carried in thousandths
Hundredths(percent) == (percent + 5) \div 10

\* the transfers the per-recipient rule prescribes for a total share, in
\* list order: floor(totalShare * round(percent*100) / round(total_percent*100))
\* for every recipient but the last listed, totalShare minus what was
\* already distributed for the last; roles missing from the addressbook and
\* shares of zero give no transfer
RECURSIVE ExpectedShares(_, _, _, _)
ExpectedShares(totalShare, i, distributed, acc) ==
  LET rs == revenueConfig.recipients IN
  IF i > Len(rs) THEN acc
  ELSE IF BookGet(book, rs[i].role) = NoEntry
    THEN ExpectedShares(totalShare, i + 1, distributed, acc)
  ELSE LET share == IF i = Len(rs)
                    THEN totalShare - distributed
                    ELSE (totalShare * Hundredths(rs[i].percent))
                           \div Hundredths(revenueConfig.total_percent)
       IN ExpectedShares(totalShare, i + 1, distributed + share,
            IF share = 0 THEN acc
            ELSE Append(acc, [to |-> AddressOf(rs[i].role), amount |-> share]))

SharesSent(token) ==
  LET txs == RevenueTxs(token)
  IN [k \in 1..Len(txs) |-> [to |-> txs[k].to, amount |-> txs[k].amount]]

IsPrefix(a, b) == Len(a) <= Len(b) /\ a = SubSeq(b, 1, Len(a))

RevenueLoopLeft == fcPc \notin {"buffer", "bufferWait", "revenue", "revenueLoop", "revenueWait"}

ThirdsOf(total) ==
  [enabled |-> TRUE, total_percent |-> total,
   recipients |-> << Recipient("dev", 33000), Recipient("broker", 33000),
                     Recipient("admin", total - 66000) >>]

\* C13: the revenue-share step sends every recipient except the last listed
\* floor(totalShare * round(percent*100) / round(total_percent*100)) and the
\* last listed recipient totalShare minus the sum already distributed, in
\* list order; a total share of 1000 under 33/33/34 of 100 gives 330, 330,
\* 340 and a total share of 990 under 33/33/33 of 99 gives 330, 330, 330.
C13_PerRecipientRule ==
  \A k \in RevenueFacts :
    LET token == facts[k].token
        totalShare == TotalShareOf(facts[k].balance)
        expected == IF totalShare = 0 THEN << >>
                    ELSE ExpectedShares(totalShare, 1, 0, << >>)
    IN /\ IsPrefix(SharesSent(token), expected)
       /\ RevenueLoopLeft => SharesSent(token) = expected
       /\ (RevenueLoopLeft /\ AllRecipientsResolve /\ facts[k].balance = 1000) =>
            /\ revenueConfig = ThirdsOf(100000) =>
                 /\ totalShare = 1000
                 /\ SharesSent(token) = << [to |-> AddressOf("dev"), amount |-> 330],
                                           [to |-> AddressOf("broker"), amount |-> 330],
                                           [to |-> AddressOf("admin"), amount |-> 340] >>
            /\ revenueConfig = ThirdsOf(99000) =>
                 /\ totalShare = 990
                 /\ SharesSent(token) = << [to |-> AddressOf("dev"), amount |-> 330],
                                           [to |-> AddressOf("broker"), amount |-> 330],
                                           [to |-> AddressOf("admin"), amount |-> 330] >>

\* a balance of 7 under 33/33/34 of 100 has been shared 2, 2, 3: the last
\* listed recipient was sent the remainder of the total share
C13_Witness ==
  /\ RevenueLoopLeft
  /\ revenueConfig = ThirdsOf(100000)
  /\ \E k \in RevenueFacts :
       /\ facts[k].balance = 7
       /\ SharesSent(facts[k].token) = << [to |-> AddressOf("dev"), amount |-> 2],
                                          [to |-> AddressOf("broker"), amount |-> 2],
                                          [to |-> AddressOf("admin"), amount |-> 3] >>
       /\ \A x \in 1..Len(RevenueTxs(facts[k].token)) :
            RevenueTxs(facts[k].token)[x].status = "confirmed"

\* the share a recipient's percent gives it of a total share
NominalShare(totalShare, i) ==
  (totalShare * Hundredths(revenueConfig.recipients[i].percent))
    \div Hundredths(revenueConfig.total_percent)

Resolves(i) == BookGet(book, revenueConfig.recipients[i].role) # NoEntry

\* C14: in the revenue-share step a recipient role missing from the
\* addressbook gets no transfer, and once the loop is left every recipient
\* that resolves and is due a share has had a transfer attempted for every
\* asset with a total share, whether recipients listed before or after it
\* were missing or had their transfer fail.
C14_MissingRecipientSkipped ==
  /\ \A i \in TxOf("revenue") :
       \E r \in 1..Len(revenueConfig.recipients) :
         Resolves(r) /\ txLog[i].to = AddressOf(revenueConfig.recipients[r].role)
  /\ RevenueLoopLeft =>
       \A k \in RevenueFacts : \A r \in 1..Len(revenueConfig.recipients) :
         (Resolves(r) /\ NominalShare(TotalShareOf(facts[k].balance), r) > 0) =>
           \E x \in 1..Len(RevenueTxs(facts[k].token)) :
             RevenueTxs(facts[k].token)[x].to = AddressOf(revenueConfig.recipients[r].role)

\* the second of three recipients is missing from the addressbook; the first
\* and the third have received their transfers
C14_Witness ==
  /\ RevenueLoopLeft
  /\ Len(revenueConfig.recipients) = 3
  /\ ~Resolves(2)
  /\ \E i, j \in TxOf("revenue") :
       /\ i < j
       /\ txLog[i].token = txLog[j].token
       /\ txLog[i].to = AddressOf(revenueConfig.recipients[1].role)
       /\ txLog[j].to = AddressOf(revenueConfig.recipients[3].role)
       /\ txLog[i].status = "confirmed"
       /\ txLog[j].status = "confirmed"

RemainderFacts == {k \in 1..Len(facts) : facts[k].step = "remainder"}

RemainderLoopLeft == fcPc \in {"finally", "idle"} /\ "remainder" \in stepsRun

\* every accepted asset was read by step 5 and every transfer of the cycle
\* was confirmed
SweepSucceeded ==
  /\ RemainderLoopLeft
  /\ \A t \in ActiveTokens : \E k \in RemainderFacts : facts[k].token = t
  /\ \A i \in 1..Len(txLog) : txLog[i].status = "confirmed"

---------------------------------------------------------------------------
(* Properties of two cycles in a row (RetrySpec) *)

\* the transaction attempts of the second cycle
TxOfThisCycle == {i \in 1..Len(txLog) : i > fcStat.mark}

C16_RetryAfterCleanCycleSubmitsNothing ==
  (fcStat.runs = 2 /\ faults = MaxFaults) => TxOfThisCycle = {}

---------------------------------------------------------------------------
(* Properties of the swaps (SwapSpec) *)

AllSwapTxs == {i \in DOMAIN txLog : txLog[i].kind = "swap"}

\* amountOutExpected * (10000 - slippageBps) / 10000, rounded down, at
\* the default tolerance of 200 bps
BoundAt200Bps(amountOutExpected) == (amountOutExpected * (10000 - 200)) \div 10000

\* a swap is submitted with the quote the pool gives at its submission
SwapCarriesFreshQuote ==
  (Len(txLog') > Len(txLog) /\ txLog'[Len(txLog')].kind = "swap") =>
    txLog'[Len(txLog')].expected = poolQuote

\* C20: every swap submitted by the gas monitor and by executeSwap carries
\* minOut = floor(expected * (10000 - 200) / 10000) for the quote obtained
\* immediately before its submission, and expected * 98 / 100 as the code
\* computes it equals that value for every expected amount (the pool's
\* quote is any amount up to MaxQuote).
C20_SlippageBound ==
  /\ [](/\ \A i \in AllSwapTxs : txLog[i].minOut = BoundAt200Bps(txLog[i].expected)
        /\ MinEthOut(poolQuote) = BoundAt200Bps(poolQuote)
        /\ MinOut(poolQuote) = BoundAt200Bps(poolQuote))
  /\ [][SwapCarriesFreshQuote]_vars

\* the gas monitor and bw swap have each had a swap confirmed, on different
\* quotes, and the bound of one of them was rounded down
C20_Witness ==
  \E i, j \in AllSwapTxs :
    /\ txLog[i].step = "gasCheck"
    /\ txLog[j].step = "cliSwap"
    /\ txLog[i].status = "confirmed"
    /\ txLog[j].status = "confirmed"
    /\ txLog[i].expected # txLog[j].expected
    /\ txLog[i].minOut * 100 < txLog[i].expected * 98
    /\ cli.result = "hash"

ApproveTxs == {i \in DOMAIN txLog : txLog[i].kind = "approve"}

\* the amount the invocation behind a transaction is swapping
AmountIn(step) == IF step = "gasCheck" THEN SwapAmountUsdc ELSE cli.amount

\* a swap is submitted on an allowance that covers it; an approve is
\* submitted on one that does not, and is to the maximum value
AllowanceOrdered ==
  Len(txLog') > Len(txLog) =>
    LET tx == txLog'[Len(txLog')] IN
    /\ tx.kind = "swap" => allowance >= tx.amount
    /\ tx.kind = "approve" =>
         /\ allowance < AmountIn(tx.step)
         /\ tx.amount = MaxUint256
         /\ tx.to = Router

\* C21: a swap is never submitted while the router's allowance is below
\* the swap amount; when the allowance is insufficient an approve to the
\* maximum value is submitted and confirmed first, and if that approve
\* fails no swap is submitted; when the allowance already suffices no
\* approve is sent. Both for the gas monitor and for executeSwap.
C21_ApproveBeforeSwap ==
  /\ [][AllowanceOrdered]_vars
  /\ [](\A j \in ApproveTxs :
          \A i \in AllSwapTxs :
            txLog[i].step = txLog[j].step =>
              /\ j < i
              /\ txLog[j].status = "confirmed")

\* the gas monitor's approve was confirmed before its swap was submitted,
\* and bw swap, started on the allowance so raised, swapped without one
C21_Witness ==
  /\ \E j \in ApproveTxs :
     \E i \in AllSwapTxs :
       /\ txLog[j].step = "gasCheck"
       /\ txLog[i].step = "gasCheck"
       /\ txLog[j].status = "confirmed"
  /\ \E i \in AllSwapTxs : txLog[i].step = "cliSwap"
  /\ \A j \in ApproveTxs : txLog[j].step = "gasCheck"

---------------------------------------------------------------------------
(* Properties of the interval gate (RestartSpec) *)

\* C22: shouldRunFundCycle (shouldRunGasCheck) is true exactly when the
\* time since the last fund cycle (gas check) reached its finally block is
\* at least the fund-cycle (gas-check) interval: false throughout
\* [t, t + interval) and true from t + interval on, also in a process
\* started after the one that ran the cycle, the timestamps being persisted.
C22_IntervalGating ==
  /\ shouldRunFundCycle <=> now - fcStat.endedAt >= FundCycleIntervalMs
  /\ shouldRunGasCheck <=> now - gcStat.endedAt >= GasCheckIntervalMs

\* a process restarted during its second fund cycle, now a whole interval
\* after the first one: the fund cycle is due, and the gas check, completed
\* a second time at this tick, is not
C22_Witness ==
  /\ fcStat.runs > fcStat.ends
  /\ ~fundCycleInProgress
  /\ now - fcStat.endedAt >= FundCycleIntervalMs
  /\ shouldRunFundCycle
  /\ gcStat.ends = 2
  /\ gcStat.endedAt = now
  /\ ~shouldRunGasCheck

---------------------------------------------------------------------------
(* Properties of the addressbook commands (AbSpec) *)

\* a command given a reserved role as its name, with the number of
\* arguments it takes
ReservedCommand ==
  /\ cli.op \in {"add", "up", "del", "new"}
  /\ cli.name \in {"server", "admin", "hot", "dev", "broker"}
  /\ cli.argsOk

\* the step of such a command ends it with the reserved-role error and
\* status 1, the addressbook file as it was
ReservedRejected ==
  (ReservedCommand /\ cli.pc = "ab" /\ cli' # cli) =>
    /\ cli' = [cli EXCEPT !.pc = "done", !.error = "reserved", !.exit = 1]
    /\ diskBook' = diskBook

---------------------------------------------------------------------------
(* Properties of the hot wallet's creation (HotSpec) *)

\* key generations for hot requested so far
HotRequests == hotGen.pending + hotGen.keys + hotGen.rejected

\* a fund cycle started on an addressbook with hot requests no key and
\* leaves the addressbook file alone
HotPresentNoGeneration ==
  (fcStat'.runs > fcStat.runs /\ ~NeedsHotWallet(loadAddressbook)) =>
    /\ hotGen' = hotGen
    /\ diskBook' = diskBook

\* C25: ensureHotWallet is idempotent and the hot entry is created exactly
\* once. With hot in the addressbook it requests no key generation and saves
\* nothing; over any sequence of fund cycles, failed saves included, key
\* generation for hot is requested at most once, and so the hot address
\* never changes afterwards.
C25_HotCreatedOnce ==
  /\ [][HotPresentNoGeneration]_vars
  /\ [](HotRequests <= 1)

\* at most one key is ever generated for hot
C25_AtMostOneHotKey == hotGen.keys <= 1

\* with hot in the addressbook a fund cycle requests no key generation
C25_IdempotentWhenPresent == [][HotPresentNoGeneration]_vars

---------------------------------------------------------------------------
(* Properties of the bulk sweep (CleanupSpec) *)

Running(task) == task.pc \in {"balance", "send", "wait"}

\* no two tasks that are running at the same time sign with the same wallet
NoSharedSigner ==
  \A j, k \in 1..Len(cli.tasks) :
    (j # k /\ Running(cli.tasks[j]) /\ Running(cli.tasks[k])) =>
      cli.tasks[j].wallet # cli.tasks[k].wallet

\* the target is no task's wallet, and every transfer is of the balance its
\* task read less the gas cost with margin, a task that read no more than
\* that cost sending nothing
SweepAmounts ==
  /\ \A k \in 1..Len(cli.tasks) :
       LET task == cli.tasks[k] IN
       /\ toLowerCase(task.wallet) # toLowerCase(cli.target)
       /\ task.pc \in {"send", "wait"} => task.balance > GasCostWithMargin(cli.gasCost)
       /\ task.result = "skipped" =>
            /\ task.balance <= GasCostWithMargin(cli.gasCost)
            /\ task.txId = 0
       /\ task.txId # 0 =>
            /\ txLog[task.txId].signer = task.wallet
            /\ txLog[task.txId].to = cli.target
            /\ txLog[task.txId].amount = task.balance - GasCostWithMargin(cli.gasCost)
  /\ \A i \in TxOf("cleanup") :
       /\ txLog[i].amount > 0
       /\ txLog[i].signer # txLog[i].to

\* C27: in the bulk sweep no two concurrently running transfer tasks sign
\* with the same wallet, for every addressbook, one where two roles have
\* the same address and keyfile included; the target address is never a
\* source; and each task sends exactly its balance less the gas cost with
\* margin, or nothing when the balance is no more than that cost.
C27_SweepSignersDistinct ==
  /\ NoSharedSigner
  /\ SweepAmounts

\* the amounts and the target's exclusion alone
C27_SweepAmountsExact == SweepAmounts

\* on an addressbook whose keyfiles are each under one role, no two tasks
\* share a signer
C27_DistinctWhenKeysDistinct ==
  diskBook["alice"].keyfile = "none" => NoSharedSigner

---------------------------------------------------------------------------
(* Properties of bw split (SplitSpec) *)

SplitTxs == SelectSeq(txLog, LAMBDA tx : tx.step = "split")

\* the ratios on the command line are all positive numbers, sum to exactly
\* 100 and are as many as the recipients
RatiosWellFormed ==
  /\ \A k \in 1..Len(cli.ratios) : ~cli.ratios[k].nan /\ cli.ratios[k].halves > 0
  /\ RatioSum(cli.ratios) = 200
  /\ Len(cli.ratios) = Len(cli.recipientRoles)

RatiosWhole == \A k \in 1..Len(cli.ratios) : cli.ratios[k].halves % 2 = 0

\* floor(total * ratio / 100) for a ratio held in halves
FloorShare(total, ratio) == (total * ratio.halves) \div 200

\* nothing is sent on ill-formed ratios
SplitGated == SplitTxs # << >> => RatiosWellFormed

\* the k-th transfer goes to the k-th recipient; before the last it is of
\* floor(total * ratio / 100), the last is of what the others left
SplitShares ==
  \A k \in 1..Len(SplitTxs) :
    /\ SplitTxs[k].to = AddressOf(cli.recipientRoles[k])
    /\ k < Len(cli.ratios) => SplitTxs[k].amount = FloorShare(cli.amount, cli.ratios[k])
    /\ k = Len(cli.ratios) =>
         SplitTxs[k].amount = cli.amount - SumAmounts(SubSeq(SplitTxs, 1, k - 1))

\* the split has run: it sent something, no call failed and every transfer
\* it made was confirmed, and the command has ended
SplitRan ==
  /\ cli.op = "split"
  /\ cli.pc = "done"
  /\ SplitTxs # << >>
  /\ faults = MaxFaults
  /\ \A k \in 1..Len(SplitTxs) : SplitTxs[k].status = "confirmed"

SplitComplete ==
  /\ Len(SplitTxs) = Len(cli.recipientRoles)
  /\ SumAmounts(SplitTxs) = cli.amount

\* C28: bw split sends nothing unless the ratios are all positive, sum to
\* exactly 100 and are as many as the recipients; when it runs each
\* recipient but the last gets floor(total * ratio / 100), the last gets
\* the rest, and the shares sum to exactly the requested total.
C28_SplitExact ==
  /\ SplitGated
  /\ SplitShares
  /\ SplitRan => SplitComplete

\* the same for ratios that are whole numbers
C28_SplitExactOnWholeRatios ==
  /\ SplitGated
  /\ SplitShares
  /\ (SplitRan /\ RatiosWhole) => SplitComplete

\* a split of 60/40 has run to its end
C28_WholeRatiosWitness ==
  /\ SplitRan
  /\ Len(SplitTxs) = 2
  /\ cli.amount = MaxSplit - 3
  /\ SplitTxs[1].amount = ((MaxSplit - 3) * 60) \div 100
  /\ SplitTxs[2].amount = (MaxSplit - 3) - SplitTxs[1].amount

---------------------------------------------------------------------------
(* Fund conservation over the fund cycle (StepSpec) *)

RECURSIVE SumOver(_, _)
SumOver(f, accounts) ==
  IF accounts = {} THEN 0
  ELSE LET a == CHOOSE x \in accounts : TRUE
       IN f[a] + SumOver(f, accounts \ {a})

\* what the escrow contract and the wallets hold of a token, together
TokenTotal(bal, token) == SumOver([a \in Accounts |-> bal[a][token]], Accounts)

EthTotal(eth) == SumOver(eth, DOMAIN eth)

\* no account holds less than nothing: no transfer took more than its
\* sender held
NoOverdraft ==
  /\ \A a \in Accounts : \A t \in Tokens : tokenBal[a][t] >= 0
  /\ \A a \in DOMAIN ethBal : ethBal[a] >= 0

\* the account a transaction takes its value from
TxSource(tx) == IF tx.kind = "withdrawFunds" THEN Escrow ELSE tx.signer

\* confirmed transactions move value from the escrow contract or a wallet
\* of the addressbook to a wallet of the addressbook, and a positive amount
MovesWithinAccounts ==
  \A i \in 1..Len(txLog) :
    txLog[i].status = "confirmed" =>
      /\ TxSource(txLog[i]) \in Accounts
      /\ txLog[i].to \in Accounts \ {Escrow}
      /\ txLog[i].amount > 0

\* a step of the cycle leaves the total of every asset as it was
TotalsKept ==
  /\ \A t \in Tokens : TokenTotal(tokenBal', t) = TokenTotal(tokenBal, t)
  /\ EthTotal(ethBal') = EthTotal(ethBal)

---------------------------------------------------------------------------
(* The hot wallet of a cycle that starts without one (HotSpec) *)

\* runFundCycle passes its early returns on an addressbook without hot
StartsWithoutHot ==
  /\ fcPc = "idle"
  /\ fcPc' = "withdraw"
  /\ diskBook["hot"] = NoEntry

\* the withdrawal step begins on an addressbook that has the generated hot,
\* which is registered in the addressbook file; `book` is what every step
\* of the cycle is then given
HotReadyAtWithdrawal ==
  /\ BookGet(book', "hot") # NoEntry
  /\ diskBook'["hot"] # NoEntry
  /\ hotGen'.pending = 0

\* C30: on a cycle that starts with no hot entry in the addressbook the hot
\* wallet is generated and registered before the withdrawal step begins;
\* the withdrawal step and the distribution steps of that cycle see an
\* addressbook containing hot, and the withdrawals of that cycle go to the
\* generated address.
C30_HotBeforeWithdrawal ==
  /\ [][StartsWithoutHot => HotReadyAtWithdrawal]_vars
  /\ [](\A i \in TxOf("withdraw") : txLog[i].to = AddressOf("hot"))

---------------------------------------------------------------------------
(* The server wallet under a fund cycle and a gas check (PairSpec) *)

\* transactions signed by the server wallet that are submitted and not yet
\* confirmed, of the given steps
ServerInFlight(steps) ==
  {i \in 1..Len(txLog) :
     /\ txLog[i].status = "pending"
     /\ txLog[i].signer = AddressOf("server")
     /\ txLog[i].step \in steps}

C31_OnePerTask ==
  /\ Cardinality(ServerInFlight({"withdraw", "gasTopUp"})) <= 1
  /\ Cardinality(ServerInFlight({"gasCheck"})) <= 1

---------------------------------------------------------------------------
(* Revenue shares over two fund cycles (RetrySpec) *)

\* the confirmed transactions of a step, for a token
ConfirmedOf(step, token) ==
  SelectSeq(txLog, LAMBDA tx : tx.step = step /\ tx.token = token /\ tx.status = "confirmed")

\* what the recipients have been paid of a token is no more than
\* total_percent of what was withdrawn of it
SharesWithinPercent(token) ==
  SumAmounts(ConfirmedOf("revenue", token)) * 10000
    <= SumAmounts(ConfirmedOf("withdraw", token)) * RoundX100(revenueConfig.total_percent)

C32_BoundedInOneCycle == fcStat.runs = 1 => \A token \in Tokens : SharesWithinPercent(token)

\* the bound when no call has failed
C32_BoundedWithoutFailures ==
  faults = MaxFaults => \A token \in Tokens : SharesWithinPercent(token)

---------------------------------------------------------------------------
(* Revenue shares with a recipient missing from the addressbook (DistSpec) *)

\* what recipient i is paid of a total share when every recipient listed
\* before it is in the addressbook and has been paid by its percent
RECURSIVE PaidWithAllPresent(_, _, _)
PaidWithAllPresent(totalShare, cfg, i) ==
  IF i = 0 THEN 0
  ELSE PaidWithAllPresent(totalShare, cfg, i - 1)
         + (totalShare * RoundX100(cfg.recipients[i].percent)) \div RoundX100(cfg.total_percent)

ShareWithAllPresent(totalShare, cfg, i) ==
  IF i = Len(cfg.recipients)
  THEN totalShare - PaidWithAllPresent(totalShare, cfg, i - 1)
  ELSE (totalShare * RoundX100(cfg.recipients[i].percent)) \div RoundX100(cfg.total_percent)

SomeRecipientMissing ==
  \E k \in 1..Len(revenueConfig.recipients) :
    resolveAddress(revenueConfig.recipients[k].role, book) = "null"

\* the step submits a revenue-share transfer
SubmitsShare ==
  /\ fcPc = "revenueLoop"
  /\ Len(txLog') = Len(txLog) + 1
  /\ txLog'[Len(txLog')].step = "revenue"
  /\ txLog'[Len(txLog')].status = "pending"

\* the transfer is of no more than the recipient's share with everyone present
ShareAtMostNominal ==
  txLog'[Len(txLog')].amount <=
    ShareWithAllPresent(TotalShareAmount(fcLoc.tokens[fcLoc.idx].balance, revenueConfig),
                 revenueConfig, fcLoc.rec)

C33_NominalWhenAllPresent ==
  [][(SubmitsShare /\ ~SomeRecipientMissing) => ShareAtMostNominal]_vars

\* recipients listed before the last are sent their nominal share whoever
\* is missing
C33_NonLastUnaffected ==
  [][(SubmitsShare /\ fcLoc.rec < Len(revenueConfig.recipients)) => ShareAtMostNominal]_vars

---------------------------------------------------------------------------
(* The shares computed by the revenue-share step (DistSpec) *)

\* the shares the step has computed for a token and passed to transferToken
ComputedShares(token) ==
  SelectSeq(txLog, LAMBDA tx : tx.step = "revenue" /\ tx.token = token)

\* the shares of a token whose transfer was taken by the node
TransferredShares(token) ==
  SelectSeq(txLog, LAMBDA tx : tx.step = "revenue" /\ tx.token = token
                                /\ tx.status # "rejected")

SharesNonNegative ==
  \A token \in Tokens :
    \A k \in 1..Len(ComputedShares(token)) : ComputedShares(token)[k].amount >= 0

\* while the step is in its loop, what it has transferred of each asset it
\* has reached is no more than that asset's total share
SharesWithinTotal ==
  fcPc \in {"revenueLoop", "revenueWait"} =>
    \A k \in 1..fcLoc.idx :
      SumAmounts(TransferredShares(toLowerCase(fcLoc.tokens[k].address)))
        <= TotalShareAmount(fcLoc.tokens[k].balance, revenueConfig)

PercentsMatch == SumPercents(revenueConfig.recipients) = revenueConfig.total_percent

C34_WithinTotalOnMatchingPercents ==
  (PercentsMatch /\ revenueConfig.total_percent >= 100) =>
    (SharesNonNegative /\ SharesWithinTotal)

---------------------------------------------------------------------------
(* Destinations of the fund cycle's transfers (StepSpec) *)

RecipientAddresses ==
  {resolveAddress(revenueConfig.recipients[k].role, book) :
     k \in 1..Len(revenueConfig.recipients)} \ {"null"}

\* a token transfer signed by the hot wallet: the buffer top-up to the
\* server, a revenue share to a listed recipient, the remainder to admin
HotTransferDestination(tx) ==
  /\ tx.kind = "transfer"
  /\ tx.token \in Tokens
  /\ \/ tx.step = "buffer" /\ tx.to = BookGet(book, "server").address
     \/ tx.step = "revenue" /\ tx.to \in RecipientAddresses
     \/ tx.step = "remainder" /\ tx.to = BookGet(book, "admin").address

\* the native transfer of the cycle: from the server to the hot wallet
NativeTransfer(tx) ==
  /\ tx.step = "gasTopUp"
  /\ tx.signer = BookGet(book, "server").address
  /\ tx.to = BookGet(book, "hot").address

\* what the server signs: the native top-up, or a withdrawal from the
\* escrow contract to the hot wallet
ServerSigned(tx) ==
  \/ NativeTransfer(tx) /\ tx.token = "eth"
  \/ /\ tx.step = "withdraw"
     /\ tx.kind = "withdrawFunds"
     /\ tx.to = BookGet(book, "hot").address

\* C35: every token transfer signed by the hot wallet during a fund cycle
\* goes to the server address (buffer top-up), to the address of a
\* recipient role listed in the revenue-share configuration, or to the
\* admin address; the only native-asset transfer of a fund cycle is from
\* the server wallet to the hot wallet; no action of the cycle sends value
\* to any other address.
C35_TransferDestinations ==
  \A i \in 1..Len(txLog) :
    LET tx == txLog[i] IN
    /\ tx.signer \in {BookGet(book, "hot").address, BookGet(book, "server").address}
    /\ tx.signer = BookGet(book, "hot").address => HotTransferDestination(tx)
    /\ tx.token = "eth" => NativeTransfer(tx)
    /\ tx.signer = BookGet(book, "server").address => ServerSigned(tx)

\* a cycle has sent the native top-up, the buffer top-up, a revenue share
\* and the remainder, each confirmed
C35_Witness ==
  /\ fcPc = "idle"
  /\ \A step \in {"gasTopUp", "buffer", "revenue", "remainder"} :
       \E i \in TxOf(step) : txLog[i].status = "confirmed"

---------------------------------------------------------------------------
(* Properties of the knock handler (KnockSpec, KnockFairSpec) *)

Monitored(txHash) == knock.activeKnocks[txHash].timeoutId = "wrapped"

\* C36: every knock session that executeKnock opens is eventually closed:
\* its iptables rules are removed and it leaves activeKnocks, whether or
\* not auth-log monitoring was started for it and whether or not an SSH
\* login is ever detected.
C36_SessionsClose ==
  \A txHash \in TxHashes :
    knock.activeKnocks[txHash].open ~>
      /\ ~knock.activeKnocks[txHash].open
      /\ (\A t \in TxHashes : ~knock.activeKnocks[t].open) => knock.rules = << >>

\* a session for which no monitoring was started is closed by its timeout
C36_UnmonitoredSessionsClose ==
  \A txHash \in TxHashes :
    (knock.activeKnocks[txHash].open /\ ~Monitored(txHash)) ~>
      /\ ~knock.activeKnocks[txHash].open
      /\ (\A t \in TxHashes : ~knock.activeKnocks[t].open) => knock.rules = << >>

\* a session is open and no timer that would close it is pending
C36_NoClosingTimer ==
  \E txHash \in TxHashes :
    /\ knock.activeKnocks[txHash].open
    /\ Timer(txHash, "timeout") \notin knock.timers

\* the ports the configuration allows, [22] when it names none
AllowedOf(config) == IF config.allowed_ports.set THEN config.allowed_ports.v ELSE << Port(22) >>

\* the longest session the configuration allows, 600 s when it names none
MaxDurationOf(config) == IF config.max_duration = 0 THEN 600 ELSE config.max_duration

\* an integer in 1..65535 that is one of the allowed ports
Qualifies(port, config) ==
  /\ port.whole
  /\ port.n \in 1..65535
  /\ \E k \in 1..Len(AllowedOf(config)) : AllowedOf(config)[k] = port

RequestedOf(request) ==
  IF request.ports.set THEN request.ports.v ELSE AllowedOf(request.config)

Count(seq, x) == Cardinality({i \in 1..Len(seq) : seq[i] = x})

\* the rules of a port that open sessions account for
RulesOwed(port) ==
  LET open == {t \in TxHashes : knock.activeKnocks[t].open}
      owed[ts \in SUBSET open] ==
        IF ts = {} THEN 0
        ELSE LET t == CHOOSE x \in ts : TRUE
             IN Count(knock.activeKnocks[t].ports, port) + owed[ts \ {t}]
  IN owed[open]

\* no iptables rule is left that no open session accounts for
NoLeftoverRules ==
  \A i \in 1..Len(knock.rules) : Count(knock.rules, knock.rules[i]) <= RulesOwed(knock.rules[i])

\* C37: executeKnock opens only ports that are integers in 1..65535 and
\* members of the configured allowed_ports (default [22]); if no requested
\* port qualifies it opens nothing and reports failure; the session
\* duration is always within [1, max_duration]; and if opening any port
\* fails, every port of the request is closed again, no session is
\* recorded in activeKnocks, and failure is reported.
C37_KnockValidated ==
  /\ NoLeftoverRules
  /\ knock.request.done =>
       LET request == knock.request
           session == knock.activeKnocks[request.txHash]
           requested == RequestedOf(request)
           someQualifies == \E k \in 1..Len(requested) : Qualifies(requested[k], request.config)
       IN /\ request.success = session.open
          /\ request.success <=> (someQualifies /\ request.failAt = 0)
          /\ session.open =>
               /\ \A k \in 1..Len(session.ports) :
                    /\ Qualifies(session.ports[k], request.config)
                    /\ Count(requested, session.ports[k]) > 0
               /\ session.duration \in 1..MaxDurationOf(request.config)
               /\ \A k \in 1..Len(session.ports) : Count(knock.rules, session.ports[k]) > 0

\* with a session open on port 80, a request for ports 80 and 22 has had
\* its first port opened, failed on the second and been cleaned up
C37_Witness ==
  /\ knock.request.done
  /\ knock.request.failAt = 2
  /\ ~knock.request.success
  /\ \E t \in TxHashes : knock.activeKnocks[t].open /\ t # knock.request.txHash
  /\ Count(knock.rules, Port(80)) = 1
====
